---- MODULE Spec2Model ----
(***************************************************************************)
(* A model of mcp-guard: the guard pipeline (pipe), the McpGuard           *)
(* middleware, the four guards (StaticGuard, ValidationGuard,              *)
(* SemanticGuard, ApprovalGuard) and the glob matcher matchPattern.        *)
(*                                                                         *)
(* Strings of the program (tool names, patterns, string arguments) are     *)
(* sequences of one-character strings, so that matching and scanning are   *)
(* computed character by character as the code does.  An optional value    *)
(* (a field that may be undefined) is the empty sequence when absent and   *)
(* the one-element sequence <<v>> when present.                            *)
(***************************************************************************)
EXTENDS Integers, Sequences, FiniteSets, TLC

VARIABLES
    mpPattern,   \* matchPattern harness: the pattern argument
    mpTool,      \* matchPattern harness: the toolName argument
    mpResult,    \* matchPattern harness: <<>> before the call, <<b>> after
    hGuard,      \* guard harness: the guard under evaluation (kind + config)
    hCtx,        \* guard harness: the ToolCallContext passed to the guard
    hEnv,        \* guard harness: what the external capabilities did
    hOut,        \* guard harness: <<>> before the call, <<outcome>> after
    mcpConfig,   \* McpGuard: the validated configuration (this.config)
    guards,      \* pipe: the composed guard list
    mwCtx,       \* middleware: the MiddlewareContext (ctx.args is mutable)
    callCtx,     \* pipe: the ctx the pipeline was called with
    currentCtx,  \* pipe: the local currentCtx
    idx,         \* pipe: position of the for-of loop in guards
    result,      \* pipe: the result of the guard awaited last
    ret,         \* pipe: <<>> while running, <<decision>> once returned
    invoked,     \* log: one entry per guard invocation (index, ctx, env)
    nextLog,     \* log: ctx.args as seen by each next() invocation
    thrown,      \* middleware: <<>> or <<error>> raised to the host
    pc,          \* control state of the pipeline / middleware
    agGuard,     \* concurrent approvals: the one ApprovalGuard being called
    agCallbacks, \* concurrent approvals: what its notification callbacks do
    agEvals,     \* concurrent approvals: one record per evaluation started
    agLog,       \* concurrent approvals: the approval handler's invocations
    bpTemplate,  \* buildPrompt harness: the template argument
    bpCtx,       \* buildPrompt harness: the ctx argument
    bpPrompt     \* buildPrompt harness: <<>> before the call, <<s>> after

mpVars == <<mpPattern, mpTool, mpResult>>
hVars == <<hGuard, hCtx, hEnv, hOut>>
pipeVars == <<mcpConfig, guards, mwCtx, callCtx, currentCtx, idx, result, ret, invoked,
              nextLog, thrown, pc>>
concVars == <<agGuard, agCallbacks, agEvals, agLog>>
promptVars == <<bpTemplate, bpCtx, bpPrompt>>
vars == <<mpPattern, mpTool, mpResult, hGuard, hCtx, hEnv, hOut, mcpConfig,
          guards, mwCtx, callCtx, currentCtx, idx, result, ret, invoked, nextLog,
          thrown, pc, agGuard, agCallbacks, agEvals, agLog, bpTemplate,
          bpCtx, bpPrompt>>

----------------------------------------------------------------------------
(* Optional values *)

None == <<>>

Some(v) == <<v>>

IsSome(o) == o # <<>>

----------------------------------------------------------------------------
(* Strings used as tool names and patterns *)

S_empty == <<>>

S_star == <<"*">>

S_fs_star == <<"f", "s", ":", "*">>

S_fs_read_star == <<"f", "s", ":", "r", "e", "a", "d", "*">>

S_fs_read == <<"f", "s", ":", "r", "e", "a", "d">>

S_fs_readFile == <<"f", "s", ":", "r", "e", "a", "d", "F", "i", "l", "e">>

S_fs_deleteFile ==
    <<"f", "s", ":", "d", "e", "l", "e", "t", "e", "F", "i", "l", "e">>

S_myfs_read == <<"m", "y", "f", "s", ":", "r", "e", "a", "d">>

S_db_query == <<"d", "b", ":", "q", "u", "e", "r", "y">>

S_star_query == <<"*", ":", "q", "u", "e", "r", "y">>

S_safe_star == <<"s", "a", "f", "e", ":", "*">>

S_safe == <<"s", "a", "f", "e">>

S_unsafe_action ==
    <<"u", "n", "s", "a", "f", "e", ":", "a", "c", "t", "i", "o", "n">>

S_constructor ==
    <<"c", "o", "n", "s", "t", "r", "u", "c", "t", "o", "r">>

\* a tool name with a line break in it: "fs:\nrm"
S_fs_newline == <<"f", "s", ":", "\n", "r", "m">>

----------------------------------------------------------------------------
(* src/utils/patterns.ts: matchPattern *)

\* the characters the character class of line 41 escapes
RegexSpecials ==
    {".", "+", "?", "^", "$", "{", "}", "(", ")", "|", "[", "]", "\\"}

\* the characters a `.` of a RegExp without the s flag does not match
LineTerminators == {"\n", "\r"}

RECURSIVE EscapeRegex(_)
\* pattern.replace(/[.+?^${}()|[\]\\]/g, '\\$&')
EscapeRegex(p) ==
    IF p = <<>> THEN <<>>
    ELSE (IF Head(p) \in RegexSpecials THEN <<"\\", Head(p)>> ELSE <<Head(p)>>)
         \o EscapeRegex(Tail(p))

RECURSIVE StarToDotStar(_)
\* escaped.replace(/\*/g, '.*')
StarToDotStar(e) ==
    IF e = <<>> THEN <<>>
    ELSE (IF Head(e) = "*" THEN <<".", "*">> ELSE <<Head(e)>>)
         \o StarToDotStar(Tail(e))

RECURSIVE RegexMatchFrom(_, _, _, _)
\* new RegExp(`^${regexPattern}$`).test(s), from position i of the regular
\* expression source and position j of s.  The source holds escaped
\* characters (\c, a literal c), `.*`, a lone `.` and plain characters.
RegexMatchFrom(re, i, s, j) ==
    IF i > Len(re) THEN j > Len(s)
    ELSE IF re[i] = "\\" /\ i < Len(re)
    THEN /\ j <= Len(s)
         /\ s[j] = re[i + 1]
         /\ RegexMatchFrom(re, i + 2, s, j + 1)
    ELSE IF re[i] = "." /\ i < Len(re) /\ re[i + 1] = "*"
    THEN \E k \in j..(Len(s) + 1) :
            /\ \A m \in j..(k - 1) : s[m] \notin LineTerminators
            /\ RegexMatchFrom(re, i + 2, s, k)
    ELSE IF re[i] = "."
    THEN /\ j <= Len(s)
         /\ s[j] \notin LineTerminators
         /\ RegexMatchFrom(re, i + 1, s, j + 1)
    ELSE /\ j <= Len(s)
         /\ s[j] = re[i]
         /\ RegexMatchFrom(re, i + 1, s, j + 1)

RegexTest(re, s) == RegexMatchFrom(re, 1, s, 1)

Includes(s, c) == \E i \in 1..Len(s) : s[i] = c

\* a variant in which only the pattern '*' itself accepts the empty name
matchPattern_EmptyOnlyByStar(pattern, toolName) ==
    IF pattern = <<"*">> THEN TRUE
    ELSE IF ~Includes(pattern, "*") THEN pattern = toolName
    ELSE /\ toolName # <<>>
         /\ RegexTest(StarToDotStar(EscapeRegex(pattern)), toolName)

matchPattern(pattern, toolName) ==
    IF pattern = <<"*">> THEN TRUE
    ELSE IF ~Includes(pattern, "*") THEN pattern = toolName
    ELSE RegexTest(StarToDotStar(EscapeRegex(pattern)), toolName)

matchesAnyPattern(patterns, toolName) ==
    \E i \in 1..Len(patterns) : matchPattern(patterns[i], toolName)

----------------------------------------------------------------------------
(* Values, arguments, contexts and results (types.ts)                      *)
(*                                                                         *)
(* A JSON-like value is a record [t, s, kids]: t is the JavaScript type,   *)
(* s the characters of a string (or the digits of a number), kids the      *)
(* elements of an array or the Object.values of a nested object.  The      *)
(* arguments of a call (a Record<string, unknown>) are a TLA+ record from  *)
(* parameter names to values.                                              *)

Str(s) == [t |-> "string", s |-> s, kids |-> <<>>]

Num(digits) == [t |-> "number", s |-> digits, kids |-> <<>>]

BigIntValue(digits) == [t |-> "bigint", s |-> digits, kids |-> <<>>]

Arr(items) == [t |-> "array", s |-> <<>>, kids |-> items]

Obj(values) == [t |-> "object", s |-> <<>>, kids |-> values]

EmptyArgs == [k \in {} |-> Str(<<>>)]

\* Object.assign(target, source) on two argument records
ObjectAssign(target, source) ==
    [k \in (DOMAIN target) \cup (DOMAIN source) |->
        IF k \in DOMAIN source THEN source[k] ELSE target[k]]

\* a GuardResult; reason and sanitizedArgs are optional
GuardResult(allowed, reason, sanitizedArgs) ==
    [allowed |-> allowed, reason |-> reason, sanitizedArgs |-> sanitizedArgs]

AllowResult == GuardResult(TRUE, None, None)

\* a denial reason: the template used (tag), the tool name and the text
\* interpolated into it (ms: the timeout a timed-out message quotes)
Reason(tag, tool, detail) ==
    [tag |-> tag, tool |-> tool, detail |-> detail, ms |-> 0]

\* the reason is the empty string: every template is a non-empty literal
\* with texts interpolated, except a rule's description and the reason of
\* a guard function of the caller, which are used as they are
ReasonIsEmptyString(reason) ==
    reason.tag \in {"description", "custom"} /\ reason.detail = <<>>

DenyResult(tag, tool, detail) ==
    GuardResult(FALSE, Some(Reason(tag, tool, detail)), None)

\* what one call of a guard did: it returned a result or it raised (the
\* promise rejected); events are the external capabilities it called
Returned(r, events) ==
    [threw |-> FALSE, result |-> r, error |-> <<>>, events |-> events]

Threw(message, events) ==
    [threw |-> TRUE, result |-> GuardResult(FALSE, None, None),
     error |-> message, events |-> events]

Event(name, flag) == [ev |-> name, flag |-> flag]

\* a ToolCallContext
ToolCallContext(toolName, args, userPrompt, meta) ==
    [toolName |-> toolName, args |-> args, userPrompt |-> userPrompt,
     meta |-> meta]

----------------------------------------------------------------------------
(* src/guards/StaticGuard.ts *)

NamespaceRule(pattern, action, description) ==
    [pattern |-> pattern, action |-> action, description |-> description]

RECURSIVE StaticGuardLoop(_, _, _)
\* the for-of loop of lines 69-80 from rule i on, then the default of
\* lines 83-90
StaticGuardLoop(config, i, ctx) ==
    IF i > Len(config.rules)
    THEN IF (IF config.defaultAction = None THEN "deny"
             ELSE config.defaultAction[1]) = "allow"
         THEN AllowResult
         ELSE DenyResult("no matching rule", ctx.toolName, <<>>)
    ELSE IF matchPattern(config.rules[i].pattern, ctx.toolName)
    THEN IF config.rules[i].action = "allow"
         THEN AllowResult
         ELSE IF config.rules[i].description # None
         THEN DenyResult("description", <<>>, config.rules[i].description[1])
         ELSE DenyResult("blocked by rule", ctx.toolName,
                         config.rules[i].pattern)
    ELSE StaticGuardLoop(config, i + 1, ctx)

\* a variant in which the most specific matching rule (the one with the
\* longest pattern) decides instead of the first one
StaticGuardEvaluate_MostSpecific(config, ctx) ==
    LET matching ==
            {i \in 1..Len(config.rules) :
                matchPattern(config.rules[i].pattern, ctx.toolName)}
        best ==
            CHOOSE i \in matching :
                \A j \in matching :
                    \/ Len(config.rules[j].pattern) < Len(config.rules[i].pattern)
                    \/ Len(config.rules[j].pattern) = Len(config.rules[i].pattern)
                       /\ i <= j
    IN  IF matching = {} THEN Returned(StaticGuardLoop(config, 1, ctx), <<>>)
        ELSE Returned(StaticGuardLoop(config, best, ctx), <<>>)

\* a variant that lets a call through when no rule matches, whatever
\* defaultAction says
StaticGuardEvaluate_FailOpen(config, ctx) ==
    IF \E i \in 1..Len(config.rules) :
            matchPattern(config.rules[i].pattern, ctx.toolName)
    THEN Returned(StaticGuardLoop(config, 1, ctx), <<>>)
    ELSE Returned(AllowResult, <<>>)

\* createStaticGuard(config)(ctx)
StaticGuardEvaluate(config, ctx) ==
    Returned(StaticGuardLoop(config, 1, ctx), <<>>)

----------------------------------------------------------------------------
(* src/guards/ValidationGuard.ts *)

\* \s of a regular expression, as far as the model's characters go
WhitespaceChars == {" ", "\t", "\n", "\r"}

\* \w of a regular expression
WordChars ==
    {"a", "b", "c", "d", "e", "f", "g", "h", "i", "j", "k", "l", "m", "n",
     "o", "p", "q", "r", "s", "t", "u", "v", "w", "x", "y", "z",
     "A", "B", "C", "D", "E", "F", "G", "H", "I", "J", "K", "L", "M", "N",
     "O", "P", "Q", "R", "S", "T", "U", "V", "W", "X", "Y", "Z",
     "0", "1", "2", "3", "4", "5", "6", "7", "8", "9", "_"}

\* [\x00-\x08\x0b\x0c\x0e-\x1f]; a control character is written by its name,
\* and so is the backtick ("BACKTICK")
ControlChars == {"NUL", "SOH", "BEL", "BS", "VT", "FF", "ESC"}

\* /[;|&]\s*\w+/
HitsCommand(s) ==
    \E i \in 1..Len(s) :
        /\ s[i] \in {";", "|", "&"}
        /\ \E j \in (i + 1)..Len(s) :
              /\ s[j] \in WordChars
              /\ \A m \in (i + 1)..(j - 1) : s[m] \in WhitespaceChars

\* /open[^close]+close/ where open is one or two characters
HitsDelimited(s, open, close) ==
    \E i \in 1..Len(s) :
        /\ i + Len(open) - 1 <= Len(s)
        /\ \A d \in 1..Len(open) : s[i + d - 1] = open[d]
        /\ \E j \in (i + Len(open) + 1)..Len(s) :
              /\ s[j] = close
              /\ \A m \in (i + Len(open))..(j - 1) : s[m] # close

\* /\.\.[/\\]/
HitsTraversal(s) ==
    \E i \in 1..(Len(s) - 2) :
        s[i] = "." /\ s[i + 1] = "." /\ s[i + 2] \in {"/", "\\"}

\* /\{\{.*\}\}/
HitsTemplate(s) ==
    \E i \in 1..(Len(s) - 3) :
        /\ s[i] = "{" /\ s[i + 1] = "{"
        /\ \E j \in (i + 2)..(Len(s) - 1) :
              /\ s[j] = "}" /\ s[j + 1] = "}"
              /\ \A m \in (i + 2)..(j - 1) : s[m] \notin LineTerminators

\* suspiciousPatterns.some(pattern => pattern.test(value)), lines 75-95
IsSuspiciousString(s) ==
    \/ HitsCommand(s)
    \/ HitsDelimited(s, <<"$", "(">>, ")")
    \/ HitsDelimited(s, <<"BACKTICK">>, "BACKTICK")
    \/ HitsDelimited(s, <<"$", "{">>, "}")
    \/ HitsTraversal(s)
    \/ Includes(s, "NUL")
    \/ HitsTemplate(s)
    \/ \E i \in 1..Len(s) : s[i] \in ControlChars

\* the recursion cap of line 71
MaxScanDepth == 10

RECURSIVE detectInjectionPatterns(_, _)
detectInjectionPatterns(value, depth) ==
    IF depth > MaxScanDepth THEN FALSE
    ELSE IF value.t = "string" THEN IsSuspiciousString(value.s)
    ELSE IF value.t \in {"array", "object"}
    THEN \E i \in 1..Len(value.kids) :
            detectInjectionPatterns(value.kids[i], depth + 1)
    ELSE FALSE

\* a variant whose scan counts the values of the arguments as depth 0
detectInjectionInArgs_FromZero(args) ==
    \E k \in DOMAIN args : detectInjectionPatterns(args[k], 0)

\* detectInjectionPatterns(ctx.args): the arguments object is depth 0
detectInjectionInArgs(args) ==
    \E k \in DOMAIN args : detectInjectionPatterns(args[k], 1)

\* property names every JavaScript object inherits from Object.prototype
ObjectPrototypeKeys == {S_constructor}

\* schemas[ctx.toolName] (line 133): a registered schema, a member inherited
\* from Object.prototype (truthy, and no Zod schema), or undefined
SchemaLookup(schemas, toolName) ==
    IF toolName \in schemas THEN "schema"
    ELSE IF toolName \in ObjectPrototypeKeys THEN "inherited"
    ELSE "undefined"

RECURSIVE Join(_, _)
\* Array.prototype.join(sep) on an array of strings
Join(parts, sep) ==
    IF parts = <<>> THEN <<>>
    ELSE IF Len(parts) = 1 THEN parts[1]
    ELSE parts[1] \o sep \o Join(Tail(parts), sep)

\* a Zod issue: the path of the offending field and the message
ZodIssue(path, message) == [path |-> path, message |-> message]

\* formatZodErrors(error), lines 52-59
formatZodErrors(errors) ==
    Join([i \in 1..Len(errors) |->
             (IF Len(errors[i].path) > 0
              THEN <<"\"">> \o Join(errors[i].path, <<".">>) \o <<"\"">>
              ELSE <<"v", "a", "l", "u", "e">>)
             \o <<":", " ">> \o errors[i].message],
         <<";", " ">>)

InjectionDenial ==
    DenyResult("Potential injection pattern detected in arguments", <<>>, <<>>)

\* a variant that leaves the injection scan out when a schema is registered
ValidationGuardEvaluate_SchemaOnly(config, ctx, env) ==
    IF SchemaLookup(config.schemas, ctx.toolName) = "undefined"
    THEN IF config.strictMode = Some(TRUE)
         THEN Returned(DenyResult("No validation schema defined",
                                  ctx.toolName, <<>>), <<>>)
         ELSE IF detectInjectionInArgs(ctx.args)
         THEN Returned(InjectionDenial, <<>>)
         ELSE Returned(AllowResult, <<>>)
    ELSE IF env.parse = "success"
    THEN Returned(GuardResult(TRUE, None, Some(env.data)),
                  <<Event("safeParse", TRUE)>>)
    ELSE Returned(DenyResult("Validation failed", <<>>, env.message),
                  <<Event("safeParse", FALSE)>>)

\* a variant that hands the arguments it was given back as the sanitized
\* ones instead of the schema's output
ValidationGuardEvaluate_RawArgs(config, ctx, env) ==
    IF SchemaLookup(config.schemas, ctx.toolName) = "undefined"
    THEN IF config.strictMode = Some(TRUE)
         THEN Returned(DenyResult("No validation schema defined",
                                  ctx.toolName, <<>>), <<>>)
         ELSE IF detectInjectionInArgs(ctx.args)
         THEN Returned(InjectionDenial, <<>>)
         ELSE Returned(AllowResult, <<>>)
    ELSE IF detectInjectionInArgs(ctx.args)
    THEN Returned(InjectionDenial, <<>>)
    ELSE IF env.parse = "success"
    THEN Returned(GuardResult(TRUE, None, Some(ctx.args)),
                  <<Event("safeParse", TRUE)>>)
    ELSE IF env.parse = "failure"
    THEN Returned(DenyResult("Validation failed", <<>>,
                             formatZodErrors(env.issues)),
                  <<Event("safeParse", FALSE)>>)
    ELSE Returned(DenyResult("Validation error", <<>>, env.message),
                  <<Event("safeParse", FALSE)>>)

\* createValidationGuard(config)(ctx); env.parse is what schema.safeParse
\* did: "success" with env.data, "failure" with env.issues, or "throw"
\* with env.message
ValidationGuardEvaluate(config, ctx, env) ==
    LET schema == SchemaLookup(config.schemas, ctx.toolName)
        strictMode ==
            IF config.strictMode = None THEN FALSE ELSE config.strictMode[1]
    IN  IF schema = "undefined"
        THEN IF strictMode
             THEN Returned(DenyResult("No validation schema defined",
                                      ctx.toolName, <<>>), <<>>)
             ELSE IF detectInjectionInArgs(ctx.args)
             THEN Returned(InjectionDenial, <<>>)
             ELSE Returned(AllowResult, <<>>)
        ELSE IF detectInjectionInArgs(ctx.args)
        THEN Returned(InjectionDenial, <<>>)
        ELSE IF schema = "inherited"
        THEN \* schema[parseMethod] is not a function: caught at line 179
             Returned(DenyResult("Validation error", <<>>,
                                 <<"n", "o", "t", " ", "f", "n">>), <<>>)
        ELSE IF env.parse = "throw"
        THEN Returned(DenyResult("Validation error", <<>>, env.message),
                      <<Event("safeParse", FALSE)>>)
        ELSE IF env.parse = "failure"
        THEN Returned(DenyResult("Validation failed", <<>>,
                                 formatZodErrors(env.issues)),
                      <<Event("safeParse", FALSE)>>)
        ELSE Returned(GuardResult(TRUE, None, Some(env.data)),
                      <<Event("safeParse", TRUE)>>)

\* customValidators[ctx.toolName] (line 211): a registered validator, a
\* member inherited from Object.prototype (the Object function), or
\* undefined
CustomValidatorLookup(customValidators, toolName) ==
    IF toolName \in customValidators THEN "validator"
    ELSE IF toolName \in ObjectPrototypeKeys THEN "inherited"
    ELSE "undefined"

\* one call of a custom validator, with the arguments it was given
CustomValidatorCall(args) ==
    [ev |-> "customValidator", flag |-> TRUE, args |-> args]

\* a variant that always hands the original arguments to the validator
ValidationGuardWithCustomEvaluate_OriginalArgs(config, ctx, env) ==
    LET base == ValidationGuardEvaluate(config.base, ctx, env)
        lookup == CustomValidatorLookup(config.customValidators, ctx.toolName)
        passed == ctx.args
        called == base.events \o <<CustomValidatorCall(passed)>>
    IN  IF base.threw \/ ~base.result.allowed THEN base
        ELSE IF lookup = "undefined" THEN base
        ELSE IF lookup = "inherited"
        THEN \* Object(args) returns an object, which is not true
             Returned(DenyResult("Custom validation failed", <<>>, <<>>),
                      base.events)
        ELSE IF env.custom = "throw" THEN Threw(env.message, called)
        ELSE IF env.custom = "true" THEN Returned(base.result, called)
        ELSE IF env.custom = "string"
        THEN Returned(GuardResult(FALSE,
                          Some(Reason("custom", <<>>, env.customText)),
                          None), called)
        ELSE Returned(DenyResult("Custom validation failed", <<>>, <<>>),
                      called)

\* createValidationGuardWithCustom(config, customValidators)(ctx);
\* env.custom is what the validator did: returned "true", "false" or a
\* "string" (env.customText), or raised ("throw"), which nothing catches
ValidationGuardWithCustomEvaluate(config, ctx, env) ==
    LET base == ValidationGuardEvaluate(config.base, ctx, env)
        lookup == CustomValidatorLookup(config.customValidators, ctx.toolName)
        passed == IF base.result.sanitizedArgs # None
                  THEN base.result.sanitizedArgs[1] ELSE ctx.args
        called == base.events \o <<CustomValidatorCall(passed)>>
    IN  IF base.threw \/ ~base.result.allowed THEN base
        ELSE IF lookup = "undefined" THEN base
        ELSE IF lookup = "inherited"
        THEN \* Object(args) returns an object, which is not true
             Returned(DenyResult("Custom validation failed", <<>>, <<>>),
                      base.events)
        ELSE IF env.custom = "throw" THEN Threw(env.message, called)
        ELSE IF env.custom = "true" THEN Returned(base.result, called)
        ELSE IF env.custom = "string"
        THEN Returned(GuardResult(FALSE,
                          Some(Reason("custom", <<>>, env.customText)),
                          None), called)
        ELSE Returned(DenyResult("Custom validation failed", <<>>, <<>>),
                      called)

----------------------------------------------------------------------------
(* src/guards/SemanticGuard.ts *)

RECURSIVE HasBigInt(_)
HasBigInt(value) ==
    \/ value.t = "bigint"
    \/ \E i \in 1..Len(value.kids) : HasBigInt(value.kids[i])

\* JSON.stringify(ctx.args, null, 2) raises a TypeError on a BigInt value
JsonStringifyThrows(args) == \E k \in DOMAIN args : HasBigInt(args[k])

\* !ctx.userPrompt: undefined and the empty string are both falsy
IsFalsyString(optional) == optional = None \/ optional[1] = <<>>

\* the position of the first occurrence of pattern in s, 0 if there is
\* none (String.prototype.indexOf, counted from 1)
IndexOf(s, pattern) ==
    LET hits == {i \in 1..(Len(s) - Len(pattern) + 1) :
                    SubSeq(s, i, i + Len(pattern) - 1) = pattern}
    IN  IF hits = {} THEN 0
        ELSE CHOOSE i \in hits : \A j \in hits : i <= j

RECURSIVE ExpandReplacement(_, _, _, _)
\* GetSubstitution for a string pattern: in the replacement text $$ is a
\* dollar sign, $& the matched text, $BACKTICK the text before the match
\* and $' the text after it; any other character stands for itself
ExpandReplacement(replacement, matched, before, after) ==
    IF replacement = <<>> THEN <<>>
    ELSE IF Head(replacement) = "$" /\ Len(replacement) >= 2
    THEN LET c == replacement[2]
             rest == SubSeq(replacement, 3, Len(replacement))
         IN  IF c = "$"
             THEN <<"$">> \o ExpandReplacement(rest, matched, before, after)
             ELSE IF c = "&"
             THEN matched \o ExpandReplacement(rest, matched, before, after)
             ELSE IF c = "BACKTICK"
             THEN before \o ExpandReplacement(rest, matched, before, after)
             ELSE IF c = "'"
             THEN after \o ExpandReplacement(rest, matched, before, after)
             ELSE <<"$">> \o ExpandReplacement(Tail(replacement), matched,
                                              before, after)
    ELSE <<Head(replacement)>>
         \o ExpandReplacement(Tail(replacement), matched, before, after)

\* String.prototype.replace(pattern, replacement) with two strings: only
\* the first occurrence of pattern is replaced
StringReplace(s, pattern, replacement) ==
    LET i == IndexOf(s, pattern)
        before == SubSeq(s, 1, i - 1)
        after == SubSeq(s, i + Len(pattern), Len(s))
    IN  IF i = 0 THEN s
        ELSE before \o ExpandReplacement(replacement, pattern, before, after)
             \o after

RECURSIVE JsonQuote(_)
\* the characters of a JSON string literal, without the enclosing quotes
JsonQuote(s) ==
    IF s = <<>> THEN <<>>
    ELSE (IF Head(s) = "\"" THEN <<"\\", "\"">>
          ELSE IF Head(s) = "\\" THEN <<"\\", "\\">>
          ELSE IF Head(s) = "\n" THEN <<"\\", "n">>
          ELSE <<Head(s)>>) \o JsonQuote(Tail(s))

\* the property names of the sample arguments, in insertion order, with
\* their characters
ArgKeys ==
    <<[key |-> "a", chars |-> <<"a">>],
      [key |-> "extra", chars |-> <<"e", "x", "t", "r", "a">>],
      [key |-> "limit", chars |-> <<"l", "i", "m", "i", "t">>],
      [key |-> "path", chars |-> <<"p", "a", "t", "h">>],
      [key |-> "q", chars |-> <<"q">>]>>

\* JSON.stringify of a string or a number
JsonScalar(value) ==
    IF value.t = "string" THEN <<"\"">> \o JsonQuote(value.s) \o <<"\"">>
    ELSE value.s

RECURSIVE JsonMembers(_, _, _)
\* the members of the object from key number i on, one per line, indented
\* by two spaces and separated by commas
JsonMembers(args, i, first) ==
    IF i > Len(ArgKeys) THEN <<>>
    ELSE IF ArgKeys[i].key \notin DOMAIN args
    THEN JsonMembers(args, i + 1, first)
    ELSE (IF first THEN <<>> ELSE <<",">>)
         \o <<"\n", " ", " ", "\"">> \o ArgKeys[i].chars
         \o <<"\"", ":", " ">> \o JsonScalar(args[ArgKeys[i].key])
         \o JsonMembers(args, i + 1, FALSE)

\* JSON.stringify(args, null, 2) for an object whose values are strings
\* and numbers
JsonStringify(args) ==
    IF DOMAIN args = {} THEN <<"{", "}">>
    ELSE <<"{">> \o JsonMembers(args, 1, TRUE) \o <<"\n", "}">>

PH_toolName == <<"{", "t", "o", "o", "l", "N", "a", "m", "e", "}">>

PH_args == <<"{", "a", "r", "g", "s", "}">>

PH_userPrompt ==
    <<"{", "u", "s", "e", "r", "P", "r", "o", "m", "p", "t", "}">>

S_not_available ==
    <<"(", "n", "o", "t", " ", "a", "v", "a", "i", "l", "a", "b", "l", "e",
      ")">>

\* buildPrompt(template, ctx), lines 79-87
buildPrompt(template, ctx) ==
    StringReplace(
        StringReplace(
            StringReplace(template, PH_toolName, ctx.toolName),
            PH_args, JsonStringify(ctx.args)),
        PH_userPrompt,
        IF ctx.userPrompt = None THEN S_not_available
        ELSE ctx.userPrompt[1])

\* a variant that lets the call through when the provider fails
SemanticGuardEvaluate_FailOpen(config, ctx, env) ==
    LET skipped ==
            /\ config.skipTools # None
            /\ \E i \in 1..Len(config.skipTools[1]) :
                  config.skipTools[1][i] = ctx.toolName
        called == <<Event("llmProvider", env.verifier = "true")>>
    IN  IF skipped THEN Returned(AllowResult, <<>>)
        ELSE IF IsFalsyString(ctx.userPrompt)
        THEN IF config.allowWithoutPrompt = Some(FALSE)
             THEN Returned(DenyResult(
                      "Semantic inspection requires user prompt context",
                      <<>>, <<>>), <<>>)
             ELSE Returned(AllowResult, <<>>)
        ELSE IF JsonStringifyThrows(ctx.args)
        THEN Threw(<<"B", "i", "g", "I", "n", "t">>, <<>>)
        ELSE IF env.verifier = "false"
        THEN Returned(DenyResult("does not align with user intent",
                                 ctx.toolName, <<>>), called)
        ELSE Returned(AllowResult, called)

\* a variant that looks at the user prompt before the skip list
SemanticGuardEvaluate_PromptFirst(config, ctx, env) ==
    LET skipped ==
            /\ config.skipTools # None
            /\ \E i \in 1..Len(config.skipTools[1]) :
                  config.skipTools[1][i] = ctx.toolName
        called == <<Event("llmProvider", env.verifier = "true")>>
    IN  IF IsFalsyString(ctx.userPrompt)
        THEN IF config.allowWithoutPrompt = Some(FALSE)
             THEN Returned(DenyResult(
                      "Semantic inspection requires user prompt context",
                      <<>>, <<>>), <<>>)
             ELSE Returned(AllowResult, <<>>)
        ELSE IF skipped THEN Returned(AllowResult, <<>>)
        ELSE IF JsonStringifyThrows(ctx.args)
        THEN Threw(<<"B", "i", "g", "I", "n", "t">>, <<>>)
        ELSE IF env.verifier = "true"
        THEN Returned(AllowResult, called)
        ELSE IF env.verifier = "false"
        THEN Returned(DenyResult("does not align with user intent",
                                 ctx.toolName, <<>>), called)
        ELSE Returned(DenyResult("Semantic inspection failed", <<>>,
                                 env.message), called)

\* createSemanticGuard(config)(ctx); env.verifier is what llmProvider did:
\* "true", "false" or "throw" (raised or rejected, with env.message)
SemanticGuardEvaluate(config, ctx, env) ==
    LET skipTools ==
            IF config.skipTools = None THEN <<>> ELSE config.skipTools[1]
        allowWithoutPrompt ==
            IF config.allowWithoutPrompt = None THEN TRUE
            ELSE config.allowWithoutPrompt[1]
        called == <<Event("llmProvider", env.verifier = "true")>>
    IN  IF \E i \in 1..Len(skipTools) : skipTools[i] = ctx.toolName
        THEN Returned(AllowResult, <<>>)
        ELSE IF IsFalsyString(ctx.userPrompt)
        THEN IF allowWithoutPrompt
             THEN Returned(AllowResult, <<>>)
             ELSE Returned(DenyResult(
                      "Semantic inspection requires user prompt context",
                      <<>>, <<>>), <<>>)
        ELSE IF JsonStringifyThrows(ctx.args)
        THEN \* buildPrompt (line 144) is outside the try of line 146
             Threw(<<"B", "i", "g", "I", "n", "t">>, <<>>)
        ELSE IF env.verifier = "true"
        THEN Returned(AllowResult, called)
        ELSE IF env.verifier = "false"
        THEN Returned(DenyResult("does not align with user intent",
                                 ctx.toolName, <<>>), called)
        ELSE Returned(DenyResult("Semantic inspection failed", <<>>,
                                 env.message), called)

\* String.prototype.startsWith
StartsWith(s, prefix) ==
    Len(prefix) <= Len(s) /\ SubSeq(s, 1, Len(prefix)) = prefix

\* String.prototype.endsWith
EndsWith(s, suffix) ==
    /\ Len(suffix) <= Len(s)
    /\ SubSeq(s, Len(s) - Len(suffix) + 1, Len(s)) = suffix

\* the callback of inspectPatterns.some (lines 186-192): the pattern '*',
\* a prefix before a trailing '*', or the tool name itself
InspectPatternHits(pattern, toolName) ==
    IF pattern = S_star THEN TRUE
    ELSE IF EndsWith(pattern, S_star)
    THEN StartsWith(toolName, SubSeq(pattern, 1, Len(pattern) - 1))
    ELSE toolName = pattern

\* shouldInspect of createSelectiveSemanticGuard
shouldInspect(inspectPatterns, toolName) ==
    \E i \in 1..Len(inspectPatterns) :
        InspectPatternHits(inspectPatterns[i], toolName)

\* createSelectiveSemanticGuard(config, inspectPatterns)(ctx)
SelectiveSemanticGuardEvaluate(config, ctx, env) ==
    IF ~shouldInspect(config.inspectPatterns, ctx.toolName)
    THEN Returned(AllowResult, <<>>)
    ELSE SemanticGuardEvaluate(config.base, ctx, env)

----------------------------------------------------------------------------
(* src/guards/ApprovalGuard.ts *)

\* timeoutMs = 300_000 (line 110)
DefaultTimeoutMs == 300000

\* the denial of lines 152-155
TimedOutDenial(toolName, ms) ==
    GuardResult(FALSE,
                Some([tag |-> "Approval timed out", tool |-> toolName,
                      detail |-> <<>>, ms |-> ms]),
                None)

\* a variant that sends every call to the approver
requiresApproval_Always(toolName, criticalTools) == TRUE

\* requiresApproval(toolName, criticalTools)
requiresApproval(toolName, criticalTools) ==
    \E i \in 1..Len(criticalTools) : matchPattern(criticalTools[i], toolName)

\* createApprovalGuard(config)(ctx).  env.approver is what the approval
\* handler did: "true" / "false" (resolved), "reject" (rejected with an
\* ordinary error), "rejectTimeoutError" (rejected with an
\* ApprovalTimeoutError), "throw" (raised before returning a promise) or
\* "pending" (never settles); env.timerFirst says the timer fired before
\* the handler settled; env.reqCb, env.recv1, env.recv2 say whether
\* onApprovalRequested and the first and second call of onApprovalReceived
\* raise ("throw") or not ("ok").
ApprovalGuardEvaluate(config, ctx, env) ==
    LET timeoutMs ==
            IF config.timeoutMs = None THEN DefaultTimeoutMs
            ELSE config.timeoutMs[1]
        onTimeout ==
            IF config.onTimeout = None THEN "deny" ELSE config.onTimeout[1]
        requested ==
            IF config.onApprovalRequested
            THEN <<Event("onApprovalRequested", FALSE)>> ELSE <<>>
        raced ==
            requested \o <<Event("approvalHandler", FALSE)>>
            \o (IF env.approver = "throw" THEN <<>>
                ELSE <<Event("setTimeout", FALSE)>>)
        received(flag) ==
            IF config.onApprovalReceived
            THEN <<Event("onApprovalReceived", flag)>> ELSE <<>>
        timedOut ==
            \/ env.approver = "pending"
            \/ env.approver = "rejectTimeoutError"
            \/ env.approver \in {"true", "false", "reject"} /\ env.timerFirst
        approved == env.approver = "true"
        failure(message, events, cb) ==
            \* the catch block, lines 143-166; cb is what this call of
            \* onApprovalReceived(ctx, false) does
            IF config.onApprovalReceived /\ cb = "throw"
            THEN Threw(env.message, events \o received(FALSE))
            ELSE Returned(DenyResult("Approval process failed", <<>>,
                                     message), events \o received(FALSE))
    IN  IF ~requiresApproval(ctx.toolName, config.criticalTools)
        THEN Returned(AllowResult, <<>>)
        ELSE IF config.onApprovalRequested /\ env.reqCb = "throw"
        THEN Threw(env.message, requested)
        ELSE IF env.approver = "throw"
        THEN failure(env.message, raced, env.recv1)
        ELSE IF timedOut
        THEN IF config.onApprovalReceived /\ env.recv1 = "throw"
             THEN Threw(env.message, raced \o received(FALSE))
             ELSE IF onTimeout = "allow"
             THEN Returned(AllowResult, raced \o received(FALSE))
             ELSE Returned(
                      GuardResult(FALSE,
                          Some([tag |-> "Approval timed out",
                                tool |-> ctx.toolName, detail |-> <<>>,
                                ms |-> timeoutMs]),
                          None),
                      raced \o received(FALSE))
        ELSE IF env.approver = "reject"
        THEN failure(env.message, raced, env.recv1)
        ELSE IF config.onApprovalReceived /\ env.recv1 = "throw"
        THEN \* line 133 raised inside the try: the catch block runs
             failure(env.message, raced \o received(approved), env.recv2)
        ELSE IF approved
        THEN Returned(AllowResult, raced \o received(TRUE))
        ELSE Returned(DenyResult("Approval denied", ctx.toolName, <<>>),
                      raced \o received(FALSE))

----------------------------------------------------------------------------
(* The parts of the state a specification does not use stay idle *)

IdlePipe ==
    /\ mcpConfig = <<>>
    /\ guards = <<>>
    /\ mwCtx = <<>>
    /\ callCtx = <<>>
    /\ currentCtx = <<>>
    /\ idx = 0
    /\ result = <<>>
    /\ ret = <<>>
    /\ invoked = <<>>
    /\ nextLog = <<>>
    /\ thrown = <<>>
    /\ pc = "idle"

IdleHarness ==
    /\ hGuard = <<>>
    /\ hCtx = <<>>
    /\ hEnv = <<>>
    /\ hOut = <<>>

IdleMatch ==
    /\ mpPattern = <<>>
    /\ mpTool = <<>>
    /\ mpResult = <<>>

IdlePrompt ==
    /\ bpTemplate = <<>>
    /\ bpCtx = <<>>
    /\ bpPrompt = <<>>

IdleConc ==
    /\ agGuard = <<>>
    /\ agCallbacks = "ok"
    /\ agEvals = <<>>
    /\ agLog = <<>>

----------------------------------------------------------------------------
(* A guard and the behaviour of its environment                            *)
(*                                                                         *)
(* A guard is [kind, config].  A guard of kind "double" stands for any     *)
(* Guard function (types.ts: Guard): its result is whatever env.double is. *)
(* env records what the external capabilities do during one call.          *)

Guard(kind, config) == [kind |-> kind, config |-> config]

M_boom == <<"b", "o", "o", "m">>

DefaultEnv ==
    [parse |-> "success", data |-> EmptyArgs, issues |-> <<>>,
     verifier |-> "true",
     approver |-> "true", timerFirst |-> FALSE, reqCb |-> "ok",
     recv1 |-> "ok", recv2 |-> "ok", message |-> M_boom,
     custom |-> "true", customText |-> <<>>, known |-> {},
     inner |-> <<>>,
     double |-> AllowResult]

\* one invocation of a guard by pipe, with the arguments it was given
PipeCall(g, ctx) ==
    [ev |-> "guard", flag |-> TRUE, guard |-> g, args |-> ctx.args]

RECURSIVE GuardOutcome(_, _, _)
RECURSIVE PipeRun(_, _, _, _)
\* pipe(...guards)(ctx) as a function, from guard number i on with
\* currentCtx = ctx (lines 23-47); envs[k] is what the environment of guard
\* k does.  A guard that raises rejects the pipeline's promise.
PipeRun(gs, i, ctx, envs) ==
    IF i > Len(gs) THEN Returned(GuardResult(TRUE, None, None), <<>>)
    ELSE LET out == GuardOutcome(gs[i], ctx, envs[i])
             called == <<PipeCall(gs[i], ctx)>> \o out.events
         IN  IF out.threw \/ ~out.result.allowed
             THEN [out EXCEPT !.events = called]
             ELSE LET rest ==
                          PipeRun(gs, i + 1,
                                  IF out.result.sanitizedArgs # None
                                  THEN [ctx EXCEPT !.args =
                                           out.result.sanitizedArgs[1]]
                                  ELSE ctx,
                                  envs)
                  IN  [rest EXCEPT !.events = called \o rest.events]

\* createStaticGuard / createValidationGuard / createSemanticGuard /
\* createApprovalGuard applied to ctx, a guard function of the caller, or
\* a pipeline used as a guard (env.inner: the behaviours for its guards)
GuardOutcome(g, ctx, env) ==
    CASE g.kind = "static" -> StaticGuardEvaluate(g.config, ctx)
      [] g.kind = "validation" -> ValidationGuardEvaluate(g.config, ctx, env)
      [] g.kind = "custom" ->
            ValidationGuardWithCustomEvaluate(g.config, ctx, env)
      [] g.kind = "semantic" -> SemanticGuardEvaluate(g.config, ctx, env)
      [] g.kind = "selective" ->
            SelectiveSemanticGuardEvaluate(g.config, ctx, env)
      [] g.kind = "approval" -> ApprovalGuardEvaluate(g.config, ctx, env)
      [] g.kind = "double" -> Returned(env.double, <<>>)
      [] g.kind = "pipe" -> PipeRun(g.config.guards, 1, ctx, env.inner)

----------------------------------------------------------------------------
(* Sample inputs *)

A_clean == [path |-> Str(<<"a", ".", "t", "x", "t">>)]

A_raw == [a |-> Str(<<"1">>), extra |-> Str(<<"x">>)]

A_coerced == [a |-> Num(<<"1">>)]

A_defaulted == [a |-> Num(<<"1">>), limit |-> Num(<<"1", "0">>)]

A_inject == [path |-> Str(<<";", " ", "r", "m">>)]

A_nested == [items |-> Arr(<<Obj(<<Str(<<"$", "(", "i", "d", ")">>)>>)>>)]

A_bigint == [n |-> BigIntValue(<<"1">>)]

RECURSIVE Nest(_, _)
\* value wrapped in n containers, arrays and objects in turn
Nest(value, n) ==
    IF n = 0 THEN value
    ELSE IF n % 2 = 0 THEN Arr(<<Nest(value, n - 1)>>)
    ELSE Obj(<<Str(<<"o", "k">>), Nest(value, n - 1)>>)

\* how many containers lie between the arguments object and the string:
\* the string is at depth n + 1, on both sides of the cap
NestLevels == {0} \cup ((MaxScanDepth - 2)..(MaxScanDepth + 1))

NestedArgs ==
    {[data |-> Nest(Str(<<";", " ", "r", "m">>), n)] : n \in NestLevels}

\* the rule list of the end-to-end scenario
FsRules ==
    <<NamespaceRule(S_fs_read_star, "allow", None),
      NamespaceRule(S_fs_star, "deny", None)>>

P_hello == <<"h", "i">>

D_no_fs == <<"N", "o", " ", "f", "s">>

HarnessTools ==
    {S_fs_readFile, S_fs_deleteFile, S_db_query, S_empty, S_constructor}

\* what a schema may return as its validated output
ParsedData == {A_clean, A_coerced, A_defaulted}

\* the output of a passthrough object schema on A_raw: the declared key is
\* coerced and the undeclared one kept
A_passed == [a |-> Num(<<"1">>), extra |-> Str(<<"x">>)]

\* an output of a successful parse together with the keys the object
\* schema declares: a schema that strips undeclared keys (the default of
\* z.object) returns its declared keys only, one built with .passthrough()
\* returns the undeclared keys of the input as well
ParsedOutputs ==
    {[data |-> d, known |-> DOMAIN d] : d \in ParsedData}
    \cup {[data |-> A_passed, known |-> {"a"}]}

M_required == <<"R", "e", "q", "u", "i", "r", "e", "d">>

M_too_long == <<"T", "o", "o", " ", "l", "o", "n", "g">>

\* what a failed safeParse may report: one issue on a field, one on a
\* nested field and one on the value as a whole
IssueLists ==
    {<<ZodIssue(<<<<"p", "a", "t", "h">>>>, M_required)>>,
     <<ZodIssue(<<<<"u", "s", "e", "r">>, <<"b", "i", "o">>>>, M_too_long),
       ZodIssue(<<>>, M_required)>>}

ValidationEnvs ==
    {[DefaultEnv EXCEPT !.parse = "success", !.data = o.data,
                        !.known = o.known] : o \in ParsedOutputs}
    \cup {[DefaultEnv EXCEPT !.parse = "failure", !.issues = e] :
              e \in IssueLists}
    \cup {[DefaultEnv EXCEPT !.parse = "throw"]}

M_bad == <<"b", "a", "d">>

\* what a custom validator may do
CustomEnvs ==
    {[e EXCEPT !.custom = c, !.customText = t] :
        e \in ValidationEnvs,
        c \in {"true", "false", "throw"}, t \in {<<>>}}
    \cup {[e EXCEPT !.custom = "string", !.customText = t] :
              e \in ValidationEnvs, t \in {M_bad, <<>>}}

\* a behaviour the schema can have on these arguments: the keys of its
\* output that it does not declare are keys of its input
EnvFits(env, ctx) ==
    env.parse = "success" =>
        ((DOMAIN env.data) \ env.known) \subseteq DOMAIN ctx.args

SemanticEnvs ==
    {[DefaultEnv EXCEPT !.verifier = v] : v \in {"true", "false", "throw"}}

ApproverBehaviours ==
    {"true", "false", "reject", "rejectTimeoutError", "throw", "pending"}

CallbackBehaviours(present) == IF present THEN {"ok", "throw"} ELSE {"ok"}

ApprovalEnvs(config) ==
    {[DefaultEnv EXCEPT !.approver = a, !.timerFirst = t, !.reqCb = q,
                        !.recv1 = r1, !.recv2 = r2] :
        a \in ApproverBehaviours, t \in BOOLEAN,
        q \in CallbackBehaviours(config.onApprovalRequested),
        r1 \in CallbackBehaviours(config.onApprovalReceived),
        r2 \in CallbackBehaviours(config.onApprovalReceived)}

----------------------------------------------------------------------------
(* The guard harness: one guard, one call *)

MaxRules == 2

RuleSamples ==
    {NamespaceRule(p, a, None) :
        p \in {S_fs_read_star, S_fs_star, S_fs_readFile, S_star},
        a \in {"allow", "deny"}}
    \cup {NamespaceRule(S_fs_star, "deny", Some(D_no_fs)),
          NamespaceRule(S_star, "deny", Some(<<>>))}

RuleLists == UNION {[1..n -> RuleSamples] : n \in 0..MaxRules}

OptionalOf(S) == {None} \cup {Some(x) : x \in S}

StaticGuards ==
    {Guard("static", [rules |-> r, defaultAction |-> d]) :
        r \in RuleLists, d \in OptionalOf({"allow", "deny"})}

ValidationGuards ==
    {Guard("validation",
           [schemas |-> sc, strictMode |-> sm, stripUnknown |-> su]) :
        sc \in {{}, {S_fs_readFile}}, sm \in OptionalOf(BOOLEAN),
        su \in {None, Some(FALSE)}}

CustomGuards ==
    {Guard("custom",
           [base |-> [schemas |-> sc, strictMode |-> sm,
                      stripUnknown |-> None],
            customValidators |-> cv]) :
        sc \in {{}, {S_fs_readFile}, {S_fs_readFile, S_constructor}},
        sm \in {None, Some(TRUE)},
        cv \in {{}, {S_fs_readFile}, {S_fs_readFile, S_db_query}}}

SemanticGuards ==
    {Guard("semantic", [skipTools |-> sk, allowWithoutPrompt |-> aw]) :
        sk \in {None, Some(<<S_db_query>>)}, aw \in OptionalOf(BOOLEAN)}

MaxPatterns == 2

InspectPatternSamples == {S_star, S_fs_star, S_star_query, S_db_query}

SelectiveGuards ==
    {Guard("selective",
           [inspectPatterns |-> ps,
            base |-> [skipTools |-> sk, allowWithoutPrompt |-> None]]) :
        ps \in UNION {[1..n -> InspectPatternSamples] : n \in 0..MaxPatterns},
        sk \in {None, Some(<<S_db_query>>)}}

ApprovalGuards ==
    {Guard("approval",
           [criticalTools |-> <<S_fs_star>>, timeoutMs |-> None,
            onTimeout |-> ot, onApprovalRequested |-> rq,
            onApprovalReceived |-> rc]) :
        ot \in OptionalOf({"deny", "allow"}), rq \in BOOLEAN, rc \in BOOLEAN}

R_first == Reason("custom", <<>>, <<"r", "1">>)

R_second == Reason("custom", <<>>, <<"r", "2">>)

\* the results a guard function of the caller may return
DoubleResults ==
    {GuardResult(TRUE, None, sa) : sa \in OptionalOf({A_coerced, A_clean})}
    \cup {GuardResult(FALSE, r, sa) :
            r \in OptionalOf({R_first, R_second}),
            sa \in OptionalOf({A_coerced})}

\* three guard functions of the caller, told apart by config.id
DoubleGuard(id) == Guard("double", [results |-> DoubleResults, id |-> id])

\* pipe(pipe(a, b), c)
NestedPipes ==
    {Guard("pipe",
           [guards |->
               <<Guard("pipe",
                       [guards |-> <<DoubleGuard("a"), DoubleGuard("b")>>]),
                 DoubleGuard("c")>>])}

DoubleEnvs == {[DefaultEnv EXCEPT !.double = r] : r \in DoubleResults}

\* the behaviours of a, b and c, arranged for pipe(pipe(a, b), c)
NestedEnvs ==
    {[DefaultEnv EXCEPT
         !.inner = <<[DefaultEnv EXCEPT !.inner = <<ea, eb>>], ec>>] :
        ea \in DoubleEnvs, eb \in DoubleEnvs, ec \in DoubleEnvs}

HarnessGuards ==
    StaticGuards \cup ValidationGuards \cup CustomGuards
        \cup SemanticGuards \cup SelectiveGuards \cup ApprovalGuards
        \cup NestedPipes

HarnessCtxs(kind) ==
    CASE kind = "static" ->
            {ToolCallContext(t, A_clean, None, None) : t \in HarnessTools}
      [] kind = "validation" ->
            {ToolCallContext(t, a, None, None) :
                t \in HarnessTools,
                a \in {EmptyArgs, A_clean, A_raw, A_inject, A_nested,
                       A_bigint} \cup NestedArgs}
      [] kind = "semantic" ->
            {ToolCallContext(t, a, u, None) :
                t \in HarnessTools, a \in {A_clean, A_bigint},
                u \in {None, Some(<<>>), Some(P_hello)}}
      [] kind = "custom" ->
            {ToolCallContext(t, a, None, None) :
                t \in {S_fs_readFile, S_db_query, S_constructor},
                a \in {A_raw, A_inject}}
      [] kind = "pipe" ->
            {ToolCallContext(t, a, Some(P_hello), None) :
                t \in {S_fs_deleteFile, S_db_query},
                a \in {EmptyArgs, A_raw}}
      [] kind = "selective" ->
            {ToolCallContext(t, A_clean, u, None) :
                t \in {S_fs_readFile, S_db_query, S_fs_newline, S_empty},
                u \in {None, Some(P_hello)}}
      [] kind = "approval" ->
            {ToolCallContext(t, A_clean, None, None) : t \in HarnessTools}

InitGuard ==
    /\ hGuard \in HarnessGuards
    /\ hCtx \in HarnessCtxs(hGuard.kind)
    /\ hEnv = None
    /\ hOut = None
    /\ IdleMatch
    /\ IdlePrompt
    /\ IdlePipe
    /\ IdleConc

CallGuard(env) ==
    /\ hOut = None
    /\ EnvFits(env, hCtx)
    /\ hEnv' = Some(env)
    /\ hOut' = Some(GuardOutcome(hGuard, hCtx, env))
    /\ UNCHANGED <<hGuard, hCtx>>
    /\ UNCHANGED mpVars
    /\ UNCHANGED promptVars
    /\ UNCHANGED pipeVars
    /\ UNCHANGED concVars

EvaluateStaticGuard ==
    /\ hGuard.kind = "static"
    /\ CallGuard(DefaultEnv)

EvaluateValidationGuard ==
    /\ hGuard.kind = "validation"
    /\ \E env \in ValidationEnvs : CallGuard(env)

EvaluateValidationGuardWithCustom ==
    /\ hGuard.kind = "custom"
    /\ \E env \in CustomEnvs : CallGuard(env)

EvaluateSemanticGuard ==
    /\ hGuard.kind = "semantic"
    /\ \E env \in SemanticEnvs : CallGuard(env)

EvaluateSelectiveSemanticGuard ==
    /\ hGuard.kind = "selective"
    /\ \E env \in SemanticEnvs : CallGuard(env)

EvaluateNestedPipe ==
    /\ hGuard.kind = "pipe"
    /\ \E env \in NestedEnvs : CallGuard(env)

EvaluateApprovalGuard ==
    /\ hGuard.kind = "approval"
    /\ \E env \in ApprovalEnvs(hGuard.config) : CallGuard(env)

NextGuard ==
    \/ EvaluateStaticGuard
    \/ EvaluateValidationGuard
    \/ EvaluateValidationGuardWithCustom
    \/ EvaluateSemanticGuard
    \/ EvaluateSelectiveSemanticGuard
    \/ EvaluateApprovalGuard
    \/ EvaluateNestedPipe

SpecGuard == InitGuard /\ [][NextGuard]_vars

----------------------------------------------------------------------------
(* utils/compose.ts: pipe, and plugin.ts: buildGuardPipeline, McpGuard     *)

\* what the environment of guard g may do during one call
GuardEnvs(g) ==
    CASE g.kind = "static" -> {DefaultEnv}
      [] g.kind = "validation" -> ValidationEnvs
      [] g.kind = "semantic" -> SemanticEnvs
      [] g.kind = "approval" -> ApprovalEnvs(g.config)
      [] g.kind = "double" ->
            {[DefaultEnv EXCEPT !.double = r] : r \in g.config.results}

\* an error that reaches the caller of the pipeline or of the middleware
ErrorValue(name, guardName, toolName, reason) ==
    [name |-> name, guardName |-> guardName, toolName |-> toolName,
     reason |-> reason]

\* buildGuardPipeline, lines 79-85: layer 1, the namespace firewall
StaticLayer(config) ==
    IF config.namespaceRules # None /\ Len(config.namespaceRules[1]) > 0
    THEN <<Guard("static",
                 [rules |-> config.namespaceRules[1],
                  defaultAction |-> Some(config.defaultNamespaceAction)])>>
    ELSE <<>>

\* buildGuardPipeline, lines 87-94: layer 2, parameter validation
ValidationLayer(config) ==
    IF /\ config.parameterSchemas # None
       /\ Cardinality(config.parameterSchemas[1]) > 0
    THEN <<Guard("validation",
                 [schemas |-> config.parameterSchemas[1],
                  strictMode |-> Some(FALSE),
                  stripUnknown |-> Some(TRUE)])>>
    ELSE <<>>

\* buildGuardPipeline, lines 96-101: layer 3, intent verification
SemanticLayer(config) ==
    IF config.enableSemanticInspection /\ config.llmProvider
    THEN <<Guard("semantic",
                 [skipTools |-> None, allowWithoutPrompt |-> None])>>
    ELSE <<>>

\* buildGuardPipeline, lines 103-110: layer 4, human approval
ApprovalLayer(config) ==
    IF /\ config.criticalTools # None
       /\ Len(config.criticalTools[1]) > 0
       /\ config.approvalHandler
    THEN <<Guard("approval",
                 [criticalTools |-> config.criticalTools[1],
                  timeoutMs |-> Some(config.approvalTimeoutMs),
                  onTimeout |-> None,
                  onApprovalRequested |-> FALSE,
                  onApprovalReceived |-> FALSE])>>
    ELSE <<>>

\* a variant that asks the human before it asks the verifier
buildGuardPipeline_ApprovalFirst(config) ==
    StaticLayer(config) \o ValidationLayer(config)
        \o ApprovalLayer(config) \o SemanticLayer(config)

\* buildGuardPipeline(config): the guards pushed, in order
buildGuardPipeline(config) ==
    StaticLayer(config) \o ValidationLayer(config)
        \o SemanticLayer(config) \o ApprovalLayer(config)

\* the toolCtx of createMiddleware, lines 170-175
BuildToolCtx(ctx) ==
    ToolCallContext(
        ctx.name,
        IF ctx.args = None THEN EmptyArgs ELSE ctx.args[1],
        IF ctx.meta = None THEN None ELSE ctx.meta[1].userPrompt,
        ctx.meta)

\* createMiddleware, lines 165-167: anything but a tool call goes to next()
MwPassNonTool ==
    /\ pc = "mw_start"
    /\ mwCtx.type # "tool"
    /\ nextLog' = Append(nextLog, mwCtx.args)
    /\ pc' = "done"
    /\ UNCHANGED <<mcpConfig, guards, mwCtx, callCtx, currentCtx, idx, result, ret,
                   invoked, thrown>>
    /\ UNCHANGED mpVars
    /\ UNCHANGED promptVars
    /\ UNCHANGED hVars
    /\ UNCHANGED concVars

\* createMiddleware, lines 170-182: build toolCtx and call the pipeline
MwEnter ==
    /\ pc = "mw_start"
    /\ mwCtx.type = "tool"
    /\ callCtx' = BuildToolCtx(mwCtx)
    /\ currentCtx' = BuildToolCtx(mwCtx)
    /\ idx' = 1
    /\ pc' = IF Len(guards) = 0 THEN "passthrough" ELSE "pipe_loop"
    /\ UNCHANGED <<mcpConfig, guards, mwCtx, result, ret, invoked, nextLog, thrown>>
    /\ UNCHANGED mpVars
    /\ UNCHANGED promptVars
    /\ UNCHANGED hVars
    /\ UNCHANGED concVars

\* a variant of the empty pipeline that fails closed
PassthroughEvaluate_Deny ==
    /\ pc = "passthrough"
    /\ ret' = Some(GuardResult(FALSE,
                               Some(Reason("Access denied", <<>>, <<>>)),
                               None))
    /\ pc' = "pipe_returned"
    /\ UNCHANGED <<mcpConfig, guards, mwCtx, callCtx, currentCtx, idx, result,
                   invoked, nextLog, thrown>>
    /\ UNCHANGED mpVars
    /\ UNCHANGED promptVars
    /\ UNCHANGED hVars
    /\ UNCHANGED concVars

\* buildGuardPipeline, lines 113-115: the pipeline of an empty guard list
PassthroughEvaluate ==
    /\ pc = "passthrough"
    /\ ret' = Some(AllowResult)
    /\ pc' = "pipe_returned"
    /\ UNCHANGED <<mcpConfig, guards, mwCtx, callCtx, currentCtx, idx, result, invoked,
                   nextLog, thrown>>
    /\ UNCHANGED mpVars
    /\ UNCHANGED promptVars
    /\ UNCHANGED hVars
    /\ UNCHANGED concVars

\* pipe, line 28: the loop calls the next guard with currentCtx and awaits
\* it; a guard that raises makes the pipeline's promise reject
PipeInvoke ==
    /\ pc = "pipe_loop"
    /\ idx <= Len(guards)
    /\ \E env \in GuardEnvs(guards[idx]) :
          LET out == GuardOutcome(guards[idx], currentCtx, env)
          IN  /\ EnvFits(env, currentCtx)
              /\ invoked' = Append(invoked,
                                   [index |-> idx, kind |-> guards[idx].kind,
                                    ctx |-> currentCtx, out |-> out])
              /\ IF out.threw
                 THEN /\ thrown' = Some(ErrorValue("Error", "", <<>>,
                                            Reason("raised", <<>>, out.error)))
                      /\ pc' = "rejected"
                      /\ UNCHANGED result
                 ELSE /\ result' = Some(out.result)
                      /\ pc' = "pipe_check"
                      /\ UNCHANGED thrown
    /\ UNCHANGED <<mcpConfig, guards, mwCtx, callCtx, currentCtx, idx, ret, nextLog>>
    /\ UNCHANGED mpVars
    /\ UNCHANGED promptVars
    /\ UNCHANGED hVars
    /\ UNCHANGED concVars

\* a variant of the loop body without the early return: a denial is noted
\* and the loop goes on
PipeResume_NoShortCircuit ==
    /\ pc = "pipe_check"
    /\ currentCtx' =
          IF result[1].allowed /\ result[1].sanitizedArgs # None
          THEN [currentCtx EXCEPT !.args = result[1].sanitizedArgs[1]]
          ELSE currentCtx
    /\ idx' = idx + 1
    /\ pc' = "pipe_loop"
    /\ UNCHANGED <<mcpConfig, guards, mwCtx, callCtx, result, ret, invoked,
                   nextLog, thrown>>
    /\ UNCHANGED mpVars
    /\ UNCHANGED promptVars
    /\ UNCHANGED hVars
    /\ UNCHANGED concVars

\* a variant of the loop body that keeps passing the original arguments
PipeResume_NoPropagation ==
    /\ pc = "pipe_check"
    /\ IF ~result[1].allowed
       THEN /\ ret' = result
            /\ pc' = "pipe_returned"
            /\ UNCHANGED idx
       ELSE /\ idx' = idx + 1
            /\ pc' = "pipe_loop"
            /\ UNCHANGED ret
    /\ UNCHANGED <<mcpConfig, guards, mwCtx, callCtx, currentCtx, result,
                   invoked, nextLog, thrown>>
    /\ UNCHANGED mpVars
    /\ UNCHANGED promptVars
    /\ UNCHANGED hVars
    /\ UNCHANGED concVars

\* a variant of the loop body that writes the sanitized arguments into the
\* call object it was given
PipeResume_InPlace ==
    /\ pc = "pipe_check"
    /\ IF ~result[1].allowed
       THEN /\ ret' = result
            /\ pc' = "pipe_returned"
            /\ UNCHANGED <<callCtx, currentCtx, idx>>
       ELSE /\ currentCtx' =
                  IF result[1].sanitizedArgs # None
                  THEN [currentCtx EXCEPT !.args = result[1].sanitizedArgs[1]]
                  ELSE currentCtx
            /\ callCtx' =
                  IF result[1].sanitizedArgs # None /\ currentCtx = callCtx
                  THEN currentCtx'
                  ELSE callCtx
            /\ idx' = idx + 1
            /\ pc' = "pipe_loop"
            /\ UNCHANGED ret
    /\ UNCHANGED <<mcpConfig, guards, mwCtx, result, invoked, nextLog, thrown>>
    /\ UNCHANGED mpVars
    /\ UNCHANGED promptVars
    /\ UNCHANGED hVars
    /\ UNCHANGED concVars

\* pipe, lines 30-41: return a denial at once; otherwise take over the
\* sanitized arguments, if any, and go on with the next guard
PipeResume ==
    /\ pc = "pipe_check"
    /\ IF ~result[1].allowed
       THEN /\ ret' = result
            /\ pc' = "pipe_returned"
            /\ UNCHANGED <<currentCtx, idx>>
       ELSE /\ currentCtx' =
                  IF result[1].sanitizedArgs # None
                  THEN [currentCtx EXCEPT !.args = result[1].sanitizedArgs[1]]
                  ELSE currentCtx
            /\ idx' = idx + 1
            /\ pc' = "pipe_loop"
            /\ UNCHANGED ret
    /\ UNCHANGED <<mcpConfig, guards, mwCtx, callCtx, result, invoked, nextLog, thrown>>
    /\ UNCHANGED mpVars
    /\ UNCHANGED promptVars
    /\ UNCHANGED hVars
    /\ UNCHANGED concVars

\* pipe, line 45: all guards passed
PipeAllPassed ==
    /\ pc = "pipe_loop"
    /\ idx > Len(guards)
    /\ ret' = Some(GuardResult(TRUE, None, None))
    /\ pc' = "pipe_returned"
    /\ UNCHANGED <<mcpConfig, guards, mwCtx, callCtx, currentCtx, idx, result, invoked,
                   nextLog, thrown>>
    /\ UNCHANGED mpVars
    /\ UNCHANGED promptVars
    /\ UNCHANGED hVars
    /\ UNCHANGED concVars

\* a variant that only reports a denial and lets the tool run
MwDenied_FailOpen ==
    /\ pc = "pipe_returned"
    /\ ~ret[1].allowed
    /\ nextLog' = Append(nextLog, mwCtx.args)
    /\ pc' = "done"
    /\ UNCHANGED <<mcpConfig, guards, mwCtx, callCtx, currentCtx, idx, result,
                   ret, invoked, thrown>>
    /\ UNCHANGED mpVars
    /\ UNCHANGED promptVars
    /\ UNCHANGED hVars
    /\ UNCHANGED concVars

\* createMiddleware, lines 184-189: a denial raises GuardDeniedError
MwDenied ==
    /\ pc = "pipe_returned"
    /\ ~ret[1].allowed
    /\ thrown' = Some(ErrorValue("GuardDeniedError", "GuardPipeline",
                          mwCtx.name,
                          IF ret[1].reason # None THEN ret[1].reason[1]
                          ELSE Reason("Access denied", <<>>, <<>>)))
    /\ pc' = "done"
    /\ UNCHANGED <<mcpConfig, guards, mwCtx, callCtx, currentCtx, idx, result, ret,
                   invoked, nextLog>>
    /\ UNCHANGED mpVars
    /\ UNCHANGED promptVars
    /\ UNCHANGED hVars
    /\ UNCHANGED concVars

\* createMiddleware, lines 191-202: merge the sanitized arguments of the
\* decision, if any, into ctx.args, then run the tool through next()
MwAllowed ==
    /\ pc = "pipe_returned"
    /\ ret[1].allowed
    /\ mwCtx' =
          IF ret[1].sanitizedArgs # None /\ mwCtx.args # None
          THEN [mwCtx EXCEPT
                   !.args = Some(ObjectAssign(mwCtx.args[1],
                                              ret[1].sanitizedArgs[1]))]
          ELSE mwCtx
    /\ nextLog' = Append(nextLog, mwCtx'.args)
    /\ pc' = "done"
    /\ UNCHANGED <<mcpConfig, guards, callCtx, currentCtx, idx, result, ret, invoked,
                   thrown>>
    /\ UNCHANGED mpVars
    /\ UNCHANGED promptVars
    /\ UNCHANGED hVars
    /\ UNCHANGED concVars

----------------------------------------------------------------------------
(* The McpGuard middleware over the pipeline built from a configuration *)

GuardConfigs ==
    {[namespaceRules |-> nr, defaultNamespaceAction |-> da,
      parameterSchemas |-> ps, enableSemanticInspection |-> sem[1],
      llmProvider |-> sem[2], criticalTools |-> crit[1],
      approvalHandler |-> crit[2], approvalTimeoutMs |-> DefaultTimeoutMs] :
        nr \in {None, Some(<<>>), Some(FsRules),
                Some(<<NamespaceRule(S_star, "allow", None)>>)},
        da \in {"allow", "deny"},
        ps \in {None, Some({}), Some({S_fs_readFile})},
        sem \in {<<FALSE, FALSE>>, <<TRUE, FALSE>>, <<TRUE, TRUE>>},
        crit \in {<<None, FALSE>>, <<Some(<<S_fs_star>>), FALSE>>,
                  <<Some(<<S_fs_star>>), TRUE>>}}

MiddlewareContexts ==
    {[type |-> ty, name |-> n, args |-> a, meta |-> m] :
        ty \in {"tool", "resource"},
        n \in {S_fs_readFile, S_fs_deleteFile, S_db_query},
        a \in {None, Some(A_raw), Some(A_inject)},
        m \in {None, Some([userPrompt |-> None]),
               Some([userPrompt |-> Some(P_hello)])}}

Init ==
    /\ mcpConfig \in GuardConfigs
    /\ guards = buildGuardPipeline(mcpConfig)
    /\ mwCtx \in MiddlewareContexts
    /\ callCtx = <<>>
    /\ currentCtx = <<>>
    /\ idx = 0
    /\ result = None
    /\ ret = None
    /\ invoked = <<>>
    /\ nextLog = <<>>
    /\ thrown = None
    /\ pc = "mw_start"
    /\ IdleMatch
    /\ IdlePrompt
    /\ IdleHarness
    /\ IdleConc

Next ==
    \/ MwPassNonTool
    \/ MwEnter
    \/ PassthroughEvaluate
    \/ PipeInvoke
    \/ PipeResume
    \/ PipeAllPassed
    \/ MwDenied
    \/ MwAllowed

Spec == Init /\ [][Next]_vars

----------------------------------------------------------------------------
(* The middleware with the awaits on the verifier and the approver made
   visible: an evaluation that reaches `await llmProvider(prompt)` or the
   race of the approval handler against the timer rests there until one of
   the awaited parties acts *)

\* the guard, evaluated on ctx, invokes the named party
CallsParty(g, ctx, name) ==
    \E env \in GuardEnvs(g) :
        LET out == GuardOutcome(g, ctx, env)
        IN  \E j \in 1..Len(out.events) : out.events[j].ev = name

\* the party the next guard of the loop awaits, if any
AwaitedParty ==
    IF guards[idx].kind = "semantic"
       /\ CallsParty(guards[idx], currentCtx, "llmProvider")
    THEN "verifier"
    ELSE IF guards[idx].kind = "approval"
            /\ CallsParty(guards[idx], currentCtx, "approvalHandler")
    THEN "approver"
    ELSE "none"

\* pipe, line 28: the awaited guard settles as it does under env
PipeSettle(env) ==
    LET out == GuardOutcome(guards[idx], currentCtx, env)
    IN  /\ EnvFits(env, currentCtx)
        /\ invoked' = Append(invoked,
                             [index |-> idx, kind |-> guards[idx].kind,
                              ctx |-> currentCtx, out |-> out])
        /\ IF out.threw
           THEN /\ thrown' = Some(ErrorValue("Error", "", <<>>,
                                      Reason("raised", <<>>, out.error)))
                /\ pc' = "rejected"
                /\ UNCHANGED result
           ELSE /\ result' = Some(out.result)
                /\ pc' = "pipe_check"
                /\ UNCHANGED thrown
        /\ UNCHANGED <<mcpConfig, guards, mwCtx, callCtx, currentCtx, idx,
                       ret, nextLog>>
        /\ UNCHANGED mpVars
        /\ UNCHANGED promptVars
        /\ UNCHANGED hVars
        /\ UNCHANGED concVars

\* a guard that awaits nobody runs to its result in one step
LiveInvoke ==
    /\ pc = "pipe_loop"
    /\ idx <= Len(guards)
    /\ AwaitedParty = "none"
    /\ PipeInvoke

\* SemanticGuard line 147 and ApprovalGuard lines 127-130: the guard has
\* invoked the verifier, or the approval handler with the timer armed, and
\* awaits
LiveSuspend ==
    /\ pc = "pipe_loop"
    /\ idx <= Len(guards)
    /\ AwaitedParty # "none"
    /\ pc' = IF AwaitedParty = "verifier" THEN "await_verifier"
             ELSE "await_approver"
    /\ UNCHANGED <<mcpConfig, guards, mwCtx, callCtx, currentCtx, idx, result,
                   ret, invoked, nextLog, thrown>>
    /\ UNCHANGED mpVars
    /\ UNCHANGED promptVars
    /\ UNCHANGED hVars
    /\ UNCHANGED concVars

\* SemanticGuard lines 146-166: the promise of llmProvider settles
VerifierSettles ==
    /\ pc = "await_verifier"
    /\ \E env \in GuardEnvs(guards[idx]) : PipeSettle(env)

\* ApprovalGuard lines 127-166: the approval handler settles (or raises)
\* before the timer fires
ApproverSettles ==
    /\ pc = "await_approver"
    /\ \E env \in GuardEnvs(guards[idx]) :
          /\ env.approver # "pending"
          /\ ~env.timerFirst
          /\ PipeSettle(env)

\* a variant of createTimeout whose timer never fires
TimerFires_Never ==
    /\ pc = "await_approver"
    /\ FALSE
    /\ UNCHANGED vars

\* createTimeout, lines 67-73: the timer fires while the handler has not
\* settled and rejects the race with ApprovalTimeoutError
TimerFires ==
    /\ pc = "await_approver"
    /\ \E env \in GuardEnvs(guards[idx]) :
          /\ env.approver \in {"pending", "true", "false", "reject"}
          /\ env.approver # "pending" => env.timerFirst
          /\ PipeSettle(env)

NextLive ==
    \/ MwPassNonTool
    \/ MwEnter
    \/ PassthroughEvaluate
    \/ LiveInvoke
    \/ LiveSuspend
    \/ VerifierSettles
    \/ ApproverSettles
    \/ TimerFires
    \/ PipeResume
    \/ PipeAllPassed
    \/ MwDenied
    \/ MwAllowed

\* the event loop runs every continuation that is ready, and a timer that
\* was armed fires; nothing makes the verifier or the approver settle
LiveFairness ==
    /\ WF_vars(MwPassNonTool)
    /\ WF_vars(MwEnter)
    /\ WF_vars(PassthroughEvaluate)
    /\ WF_vars(LiveInvoke)
    /\ WF_vars(LiveSuspend)
    /\ WF_vars(TimerFires)
    /\ WF_vars(PipeResume)
    /\ WF_vars(PipeAllPassed)
    /\ WF_vars(MwDenied)
    /\ WF_vars(MwAllowed)

\* the configurations of the live runs: each layer present or absent
LiveConfigs ==
    {c \in GuardConfigs :
        /\ c.namespaceRules \in {None, Some(FsRules)}
        /\ c.defaultNamespaceAction = "allow"
        /\ c.parameterSchemas \in {None, Some({S_fs_readFile})}
        /\ c.enableSemanticInspection = c.llmProvider
        /\ (c.criticalTools # None) = c.approvalHandler}

InitLive ==
    /\ Init
    /\ mcpConfig \in LiveConfigs

SpecLive == InitLive /\ [][NextLive]_vars /\ LiveFairness

----------------------------------------------------------------------------
(* pipe over arbitrary guards *)

MaxGuards == 3

PipeGuardSamples ==
    {Guard("double", [results |-> DoubleResults]),
     Guard("semantic", [skipTools |-> None, allowWithoutPrompt |-> None]),
     Guard("approval",
           [criticalTools |-> <<S_fs_star>>, timeoutMs |-> None,
            onTimeout |-> None, onApprovalRequested |-> FALSE,
            onApprovalReceived |-> FALSE])}

PipeGuardLists == UNION {[1..n -> PipeGuardSamples] : n \in 0..MaxGuards}

PipeContexts ==
    {ToolCallContext(t, a, Some(P_hello), None) :
        t \in {S_fs_deleteFile, S_db_query}, a \in {EmptyArgs, A_raw}}

InitPipe ==
    /\ mcpConfig = <<>>
    /\ guards \in PipeGuardLists
    /\ callCtx \in PipeContexts
    /\ currentCtx = callCtx
    /\ idx = 1
    /\ mwCtx = <<>>
    /\ result = None
    /\ ret = None
    /\ invoked = <<>>
    /\ nextLog = <<>>
    /\ thrown = None
    /\ pc = "pipe_loop"
    /\ IdleMatch
    /\ IdlePrompt
    /\ IdleHarness
    /\ IdleConc

NextPipe ==
    \/ PipeInvoke
    \/ PipeResume
    \/ PipeAllPassed

SpecPipe == InitPipe /\ [][NextPipe]_vars

----------------------------------------------------------------------------
(* The matchPattern harness: inputs drawn from bounded sets, one call *)

MaxStrLen == 3

MatchAlphabet == {"a", ".", "*", "\n"}

BoundedStrings == UNION {[1..n -> MatchAlphabet] : n \in 0..MaxStrLen}

SamplePatterns == {S_fs_star, S_safe_star, S_star, S_empty, S_fs_read_star}

SampleTools ==
    {S_fs_read, S_myfs_read, S_safe, S_unsafe_action, S_empty, S_fs_newline}

InitMatch ==
    /\ mpPattern \in BoundedStrings \cup SamplePatterns
    /\ mpTool \in BoundedStrings \cup SampleTools
    /\ mpResult = None
    /\ IdleHarness
    /\ IdleConc
    /\ IdlePipe
    /\ IdlePrompt

CallMatchPattern ==
    /\ mpResult = None
    /\ mpResult' = Some(matchPattern(mpPattern, mpTool))
    /\ UNCHANGED <<mpPattern, mpTool>>
    /\ UNCHANGED promptVars
    /\ UNCHANGED hVars
    /\ UNCHANGED concVars
    /\ UNCHANGED pipeVars

NextMatch == CallMatchPattern

SpecMatch == InitMatch /\ [][NextMatch]_vars

----------------------------------------------------------------------------
(* The buildPrompt harness: inputs drawn from sample sets, one call *)

\* DEFAULT_PROMPT_TEMPLATE (lines 57-74) with its fixed text shortened to
\* one separator; the placeholders come in the order of the source
T_default == PH_userPrompt \o <<"|">> \o PH_toolName \o <<"|">> \o PH_args

\* the template of the custom-template test: tool, arguments, prompt
T_custom ==
    <<"T", ":">> \o PH_toolName \o <<" ", "A", ":">> \o PH_args
        \o <<" ", "P", ":">> \o PH_userPrompt

PromptTemplates == {T_default, T_custom, <<"s", "t", "a", "t", "i", "c">>}

PromptTools ==
    {S_fs_readFile, PH_args, PH_userPrompt, <<"$", "&">>,
     <<"a", "$", "$", "b">>}

PromptArgs ==
    {EmptyArgs, A_raw, [q |-> Str(PH_userPrompt)],
     [q |-> Str(<<"$", "'">>)], [q |-> Str(<<"a", "\"", "b">>)]}

PromptTexts ==
    {P_hello, PH_toolName, PH_args, <<"$", "BACKTICK">>, <<"$", "1">>}

InitPrompt ==
    /\ bpTemplate \in PromptTemplates
    /\ bpCtx \in {ToolCallContext(t, a, Some(u), None) :
                     t \in PromptTools, a \in PromptArgs, u \in PromptTexts}
    /\ bpPrompt = None
    /\ IdleMatch
    /\ IdleHarness
    /\ IdleConc
    /\ IdlePipe

CallBuildPrompt ==
    /\ bpPrompt = None
    /\ bpPrompt' = Some(buildPrompt(bpTemplate, bpCtx))
    /\ UNCHANGED <<bpTemplate, bpCtx>>
    /\ UNCHANGED mpVars
    /\ UNCHANGED hVars
    /\ UNCHANGED concVars
    /\ UNCHANGED pipeVars

NextPrompt == CallBuildPrompt

SpecPrompt == InitPrompt /\ [][NextPrompt]_vars

----------------------------------------------------------------------------
(* Concurrent evaluations of one ApprovalGuard                             *)
(*                                                                         *)
(* guard(ctx) runs synchronously up to its first await: the critical test, *)
(* onApprovalRequested, the call of approvalHandler and the arming of the  *)
(* timer are one step.  The evaluation then waits on Promise.race; it      *)
(* resumes when its handler promise settles or its timer fires, whichever  *)
(* comes first, and the later of the two has no effect.                    *)

MaxCalls == 2

ConcTools == {S_fs_readFile, S_fs_deleteFile, S_db_query}

\* what one invocation of the approval handler does
HandlerResponses == {"true", "false", "reject", "pending", "throw"}

ConcGuards ==
    {Guard("approval",
           [criticalTools |-> <<S_fs_star>>, timeoutMs |-> None,
            onTimeout |-> ot, onApprovalRequested |-> FALSE,
            onApprovalReceived |-> rc]) :
        ot \in {None, Some("allow")}, rc \in BOOLEAN}

\* the state of one evaluation: its context, the response its own handler
\* invocation gives, its own handler promise and timer, which of the two
\* happened first, its outcome once it has completed, and the notification
\* callbacks it has emitted so far
Evaluation(ctx, response, handler, timer, out) ==
    [ctx |-> ctx, response |-> response, handler |-> handler,
     timer |-> timer, first |-> "none", out |-> out, notes |-> <<>>]

\* the notification of the catch block, lines 146 and 160
AgCatchNotes(config) ==
    IF config.onApprovalReceived
    THEN <<Event("onApprovalReceived", FALSE)>> ELSE <<>>

\* the notification of line 133, and that of the catch block when the
\* callback raised
AgAfterRaceNotes(config, approved, cb) ==
    IF config.onApprovalReceived
    THEN <<Event("onApprovalReceived", approved)>>
         \o (IF cb = "throw" THEN AgCatchNotes(config) ELSE <<>>)
    ELSE <<>>

\* the notification of line 123
AgRequestedNotes(config) ==
    IF config.onApprovalRequested
    THEN <<Event("onApprovalRequested", FALSE)>> ELSE <<>>

\* the catch block, lines 143-166
AgCatch(config, ctx, isTimeoutError, message, cb) ==
    IF config.onApprovalReceived /\ cb = "throw"
    THEN Threw(M_boom, <<>>)
    ELSE IF isTimeoutError
    THEN IF config.onTimeout = Some("allow")
         THEN Returned(AllowResult, <<>>)
         ELSE Returned(TimedOutDenial(ctx.toolName,
                           IF config.timeoutMs = None THEN DefaultTimeoutMs
                           ELSE config.timeoutMs[1]), <<>>)
    ELSE Returned(DenyResult("Approval process failed", <<>>, message), <<>>)

\* the rest of the try block once the race resolved, lines 132-142
AgAfterRace(config, ctx, approved, cb) ==
    IF config.onApprovalReceived /\ cb = "throw"
    THEN AgCatch(config, ctx, FALSE, M_boom, cb)
    ELSE IF approved THEN Returned(AllowResult, <<>>)
    ELSE Returned(DenyResult("Approval denied", ctx.toolName, <<>>), <<>>)

\* guard(ctx) up to the await of line 127
AgCall(toolName) ==
    /\ agGuard # <<>>
    /\ Len(agEvals) < MaxCalls
    /\ LET ctx == ToolCallContext(toolName, A_clean, None, None)
           config == agGuard.config
       IN  IF ~requiresApproval(toolName, config.criticalTools)
           THEN /\ agEvals' =
                      Append(agEvals,
                             Evaluation(ctx, "none", "none", "none",
                                        Some(Returned(AllowResult, <<>>))))
                /\ UNCHANGED agLog
           ELSE IF config.onApprovalRequested /\ agCallbacks = "throw"
           THEN /\ agEvals' =
                      Append(agEvals,
                             [Evaluation(ctx, "none", "none", "none",
                                         Some(Threw(M_boom, <<>>)))
                                 EXCEPT !.notes = AgRequestedNotes(config)])
                /\ UNCHANGED agLog
           ELSE \E response \in HandlerResponses :
                   /\ agLog' =
                         Append(agLog, [eval |-> Len(agEvals) + 1,
                                        response |-> response])
                   /\ agEvals' =
                         Append(agEvals,
                                IF response = "throw"
                                THEN [Evaluation(ctx, response, "settled",
                                          "none",
                                          Some(AgCatch(config, ctx, FALSE,
                                                       M_boom, agCallbacks)))
                                         EXCEPT !.notes =
                                            AgRequestedNotes(config)
                                            \o AgCatchNotes(config)]
                                ELSE [Evaluation(ctx, response, "pending",
                                                 "armed", None)
                                         EXCEPT !.notes =
                                            AgRequestedNotes(config)])
    /\ UNCHANGED <<agGuard, agCallbacks>>
    /\ UNCHANGED mpVars
    /\ UNCHANGED promptVars
    /\ UNCHANGED hVars
    /\ UNCHANGED pipeVars

\* a variant in which the approver's answer is taken whenever it comes,
\* also after the timeout has decided
AgHandlerSettles_LateWins(e) ==
    /\ e \in 1..Len(agEvals)
    /\ agEvals[e].handler = "pending"
    /\ agEvals[e].response \in {"true", "false", "reject"}
    /\ LET ev == agEvals[e]
           config == agGuard.config
           late == FALSE
           out ==
               IF late THEN ev.out
               ELSE IF ev.response = "reject"
               THEN Some(AgCatch(config, ev.ctx, FALSE, M_boom, agCallbacks))
               ELSE Some(AgAfterRace(config, ev.ctx, ev.response = "true",
                                     agCallbacks))
           notes ==
               IF late THEN <<>>
               ELSE IF ev.response = "reject" THEN AgCatchNotes(config)
               ELSE AgAfterRaceNotes(config, ev.response = "true",
                                     agCallbacks)
       IN  agEvals' =
               [agEvals EXCEPT ![e] =
                   [ev EXCEPT !.handler = "settled",
                              !.first = IF ev.first = "none" THEN "handler"
                                        ELSE ev.first,
                              !.out = out,
                              !.notes = ev.notes \o notes]]
    /\ UNCHANGED <<agGuard, agCallbacks, agLog>>
    /\ UNCHANGED mpVars
    /\ UNCHANGED promptVars
    /\ UNCHANGED hVars
    /\ UNCHANGED pipeVars

\* the handler promise of evaluation e settles; if e still waits on the
\* race it resumes with that result
AgHandlerSettles(e) ==
    /\ e \in 1..Len(agEvals)
    /\ agEvals[e].handler = "pending"
    /\ agEvals[e].response \in {"true", "false", "reject"}
    /\ LET ev == agEvals[e]
           config == agGuard.config
           late == ev.out # None
           out ==
               IF late THEN ev.out
               ELSE IF ev.response = "reject"
               THEN Some(AgCatch(config, ev.ctx, FALSE, M_boom, agCallbacks))
               ELSE Some(AgAfterRace(config, ev.ctx, ev.response = "true",
                                     agCallbacks))
           notes ==
               IF late THEN <<>>
               ELSE IF ev.response = "reject" THEN AgCatchNotes(config)
               ELSE AgAfterRaceNotes(config, ev.response = "true",
                                     agCallbacks)
       IN  agEvals' =
               [agEvals EXCEPT ![e] =
                   [ev EXCEPT !.handler = "settled",
                              !.first = IF ev.first = "none" THEN "handler"
                                        ELSE ev.first,
                              !.out = out,
                              !.notes = ev.notes \o notes]]
    /\ UNCHANGED <<agGuard, agCallbacks, agLog>>
    /\ UNCHANGED mpVars
    /\ UNCHANGED promptVars
    /\ UNCHANGED hVars
    /\ UNCHANGED pipeVars

\* a variant with one timer for the whole guard: when it fires, every
\* evaluation that waits is timed out
AgTimerFires_Shared(e) ==
    /\ e \in 1..Len(agEvals)
    /\ agEvals[e].timer = "armed"
    /\ agEvals' =
          [k \in 1..Len(agEvals) |->
              LET ev == agEvals[k]
                  timedOut ==
                      IF ev.out # None \/ ev.timer # "armed" THEN ev.out
                      ELSE Some(AgCatch(agGuard.config, ev.ctx, TRUE, M_boom,
                                        agCallbacks))
              IN  IF k = e
                  THEN [ev EXCEPT !.timer = "fired",
                                  !.first = IF ev.first = "none" THEN "timer"
                                            ELSE ev.first,
                                  !.out = timedOut]
                  ELSE [ev EXCEPT !.out = timedOut]]
    /\ UNCHANGED <<agGuard, agCallbacks, agLog>>
    /\ UNCHANGED mpVars
    /\ UNCHANGED promptVars
    /\ UNCHANGED hVars
    /\ UNCHANGED pipeVars

\* the timer of evaluation e fires (createTimeout, lines 67-73); if e still
\* waits on the race it resumes in the catch block with the timeout error
AgTimerFires(e) ==
    /\ e \in 1..Len(agEvals)
    /\ agEvals[e].timer = "armed"
    /\ LET ev == agEvals[e]
           out ==
               IF ev.out # None THEN ev.out
               ELSE Some(AgCatch(agGuard.config, ev.ctx, TRUE, M_boom,
                                 agCallbacks))
           notes ==
               IF ev.out # None THEN <<>> ELSE AgCatchNotes(agGuard.config)
       IN  agEvals' =
               [agEvals EXCEPT ![e] =
                   [ev EXCEPT !.timer = "fired",
                              !.first = IF ev.first = "none" THEN "timer"
                                        ELSE ev.first,
                              !.out = out,
                              !.notes = ev.notes \o notes]]
    /\ UNCHANGED <<agGuard, agCallbacks, agLog>>
    /\ UNCHANGED mpVars
    /\ UNCHANGED promptVars
    /\ UNCHANGED hVars
    /\ UNCHANGED pipeVars

InitConc ==
    /\ agGuard \in ConcGuards
    /\ agCallbacks \in CallbackBehaviours(agGuard.config.onApprovalReceived)
    /\ agEvals = <<>>
    /\ agLog = <<>>
    /\ IdleMatch
    /\ IdlePrompt
    /\ IdleHarness
    /\ IdlePipe

NextConc ==
    \/ \E toolName \in ConcTools : AgCall(toolName)
    \/ \E e \in 1..MaxCalls : AgHandlerSettles(e)
    \/ \E e \in 1..MaxCalls : AgTimerFires(e)

SpecConc == InitConc /\ [][NextConc]_vars

----------------------------------------------------------------------------
(* Claims about a single guard (SpecGuard) *)

HarnessDone(kind) == hOut # None /\ hGuard.kind = kind

HRules == hGuard.config.rules

HMatches(i) == matchPattern(HRules[i].pattern, hCtx.toolName)

HFirstMatch(i) == HMatches(i) /\ \A j \in 1..(i - 1) : ~HMatches(j)

\* C6: every guard boundary is a fault barrier: whatever the verifier, the
\* approver, the schema validator, prompt rendering and the notification
\* callbacks do (raising included), the evaluate of StaticGuard,
\* ValidationGuard, SemanticGuard and ApprovalGuard never raises and always
\* resolves to a Decision.
C6_GuardsNeverRaise == hOut # None => ~hOut[1].threw

\* C7: for every ordered rule list and every operation, StaticGuard's
\* decision is that of the first rule in declared order whose pattern
\* matches the operation (allow if its action is allow, deny if it is deny),
\* whatever any later rule says.
C7_FirstMatchWins ==
    HarnessDone("static") =>
        /\ ~hOut[1].threw
        /\ \A i \in 1..Len(HRules) :
              HFirstMatch(i) =>
                  hOut[1].result.allowed = (HRules[i].action = "allow")

\* a later, longer (more specific) rule also matches and says the opposite
C7_Witness ==
    /\ HarnessDone("static")
    /\ Len(HRules) = 2
    /\ HMatches(1) /\ HMatches(2)
    /\ Len(HRules[2].pattern) > Len(HRules[1].pattern)
    /\ HRules[1].action = "deny" /\ HRules[2].action = "allow"
    /\ ~hOut[1].result.allowed

\* C8: when no rule matches the operation, StaticGuard allows iff
\* defaultAction is allow and otherwise denies with a "no matching rule"
\* reason; with rules [fs:read* allow, fs:* deny] and default deny,
\* fs:readFile is allowed, fs:deleteFile is denied and db:query is denied.
C8_DefaultAction ==
    HarnessDone("static") =>
        /\ (\A i \in 1..Len(HRules) : ~HMatches(i)) =>
              IF hGuard.config.defaultAction = Some("allow")
              THEN hOut[1].result = AllowResult
              ELSE /\ ~hOut[1].result.allowed
                   /\ hOut[1].result.reason # None
                   /\ hOut[1].result.reason[1].tag = "no matching rule"
        /\ (HRules = FsRules /\ hGuard.config.defaultAction = Some("deny")) =>
              /\ hCtx.toolName = S_fs_readFile => hOut[1].result.allowed
              /\ hCtx.toolName = S_fs_deleteFile => ~hOut[1].result.allowed
              /\ hCtx.toolName = S_db_query => ~hOut[1].result.allowed

\* db:query falls through the rules of the scenario to the default
C8_Witness ==
    /\ HarnessDone("static")
    /\ HRules = FsRules
    /\ hGuard.config.defaultAction = Some("deny")
    /\ hCtx.toolName = S_db_query
    /\ hOut[1].result.reason = Some(Reason("no matching rule", S_db_query, <<>>))

HInjection == detectInjectionInArgs(hCtx.args)

HNoSchemaStrict ==
    /\ SchemaLookup(hGuard.config.schemas, hCtx.toolName) = "undefined"
    /\ hGuard.config.strictMode = Some(TRUE)

HRegistered == hCtx.toolName \in hGuard.config.schemas

HStrict == hGuard.config.strictMode = Some(TRUE)

\* C11: for a call with no injection hit and no schema registered for its
\* operation, ValidationGuard allows without supplying sanitizedArgs in
\* non-strict mode and denies with a "no schema defined" reason in strict
\* mode.
C11_NoSchemaOutcome ==
    (HarnessDone("validation") /\ ~HInjection /\ ~HRegistered) =>
        /\ ~hOut[1].threw
        /\ hOut[1].result =
              IF HStrict
              THEN DenyResult("No validation schema defined",
                              hCtx.toolName, <<>>)
              ELSE AllowResult

\* sub occurs in s as a run of consecutive characters
IsSubstring(sub, s) ==
    \E i \in 0..(Len(s) - Len(sub)) :
        \A d \in 1..Len(sub) : s[i + d] = sub[d]

\* C12: for a call with no injection hit whose operation has a schema: if
\* validation succeeds ValidationGuard returns allowed=true with sanitizedArgs
\* equal to the schema's validated output; if validation fails it denies with
\* a reason listing the per-field violations; if the validation engine raises
\* it denies with a "validation error" reason instead of propagating the
\* fault.
C12_SchemaOutcome ==
    (HarnessDone("validation") /\ ~HInjection /\ HRegistered) =>
        /\ ~hOut[1].threw
        /\ hEnv[1].parse = "success" =>
              hOut[1].result = GuardResult(TRUE, None, Some(hEnv[1].data))
        /\ hEnv[1].parse = "failure" =>
              /\ ~hOut[1].result.allowed
              /\ hOut[1].result.sanitizedArgs = None
              /\ hOut[1].result.reason # None
              /\ hOut[1].result.reason[1].tag = "Validation failed"
              /\ \A i \in 1..Len(hEnv[1].issues) :
                    /\ IsSubstring(hEnv[1].issues[i].message,
                                   hOut[1].result.reason[1].detail)
                    /\ \A j \in 1..Len(hEnv[1].issues[i].path) :
                          IsSubstring(hEnv[1].issues[i].path[j],
                                      hOut[1].result.reason[1].detail)
        /\ hEnv[1].parse = "throw" =>
              hOut[1].result =
                  DenyResult("Validation error", <<>>, hEnv[1].message)

\* the schema coerced one field and stripped another, and the decision
\* carries its output
C12_Witness ==
    /\ HarnessDone("validation")
    /\ ~HInjection /\ HRegistered
    /\ hCtx.args = A_raw
    /\ hEnv[1].parse = "success" /\ hEnv[1].data = A_coerced
    /\ hOut[1].result = GuardResult(TRUE, None, Some(A_coerced))

RECURSIVE SuspiciousDepths(_, _)
\* the depths at which a string that hits the heuristic is reachable
SuspiciousDepths(value, depth) ==
    IF value.t = "string"
    THEN IF IsSuspiciousString(value.s) THEN {depth} ELSE {}
    ELSE UNION {SuspiciousDepths(value.kids[i], depth + 1) :
                    i \in 1..Len(value.kids)}

HSuspiciousDepths ==
    UNION {SuspiciousDepths(hCtx.args[k], 1) : k \in DOMAIN hCtx.args}

\* C13: the injection heuristic flags a suspicious string wherever it is
\* reachable in the arguments through nested mappings and sequences up to the
\* depth cap of 10 (the arguments mapping being depth 0), and scanning stops
\* beyond the cap: a suspicious string nested deeper than the cap is treated
\* as not suspicious and does not cause a denial by the heuristic.
C13_DepthCap ==
    (HarnessDone("validation") /\ ~HNoSchemaStrict) =>
        /\ (\E d \in HSuspiciousDepths : d <= 10) =>
              hOut[1].result = InjectionDenial
        /\ (\A d \in HSuspiciousDepths : d > 10) =>
              /\ hOut[1].result # InjectionDenial
              /\ (~HRegistered /\ hCtx.toolName \notin ObjectPrototypeKeys) =>
                    hOut[1].result = AllowResult

\* a suspicious string one level beyond the cap goes through
C13_Witness ==
    /\ HarnessDone("validation")
    /\ ~HStrict /\ ~HRegistered
    /\ HSuspiciousDepths = {11}
    /\ hOut[1].result = AllowResult

\* the calls of an external capability or callback that an evaluation made
HCalls(name) ==
    {i \in 1..Len(hOut[1].events) : hOut[1].events[i].ev = name}

\* C14: whenever SemanticGuard invokes the verifier, the decision is allow
\* exactly when the verifier returns true; a verifier result of false yields
\* a denial with a "does not align with user intent" reason, and a verifier
\* that raises or rejects yields a denial whose reason contains the raised
\* message (fail closed, never an implicit allow).
C14_VerifierDecides ==
    (HarnessDone("semantic") /\ HCalls("llmProvider") # {}) =>
        /\ ~hOut[1].threw
        /\ hOut[1].result.allowed <=> hEnv[1].verifier = "true"
        /\ hEnv[1].verifier = "true" => hOut[1].result = AllowResult
        /\ hEnv[1].verifier = "false" =>
              hOut[1].result =
                  DenyResult("does not align with user intent",
                             hCtx.toolName, <<>>)
        /\ hEnv[1].verifier = "throw" =>
              /\ hOut[1].result.reason # None
              /\ hOut[1].result.reason[1].tag = "Semantic inspection failed"
              /\ IsSubstring(hEnv[1].message, hOut[1].result.reason[1].detail)

\* the provider failed and the call was denied with its message
C14_Witness ==
    /\ HarnessDone("semantic")
    /\ HCalls("llmProvider") # {}
    /\ hEnv[1].verifier = "throw"
    /\ hOut[1].result = DenyResult("Semantic inspection failed", <<>>, M_boom)

HSkipped ==
    /\ hGuard.config.skipTools # None
    /\ \E i \in 1..Len(hGuard.config.skipTools[1]) :
          hGuard.config.skipTools[1][i] = hCtx.toolName

\* C15: SemanticGuard never invokes the verifier for an operation that is
\* exactly equal to an entry of skipTools (it allows, even when the
\* originating request is absent and allowWithoutPrompt is false), nor for a
\* call whose originating request is absent; in the latter case it allows iff
\* allowWithoutPrompt is true (the default) and otherwise denies with a
\* "requires user prompt context" reason.
C15_SkipAndMissingPrompt ==
    HarnessDone("semantic") =>
        /\ HSkipped => hOut[1] = Returned(AllowResult, <<>>)
        /\ (~HSkipped /\ hCtx.userPrompt = None) =>
              /\ ~hOut[1].threw
              /\ hOut[1].events = <<>>
              /\ hOut[1].result =
                    IF hGuard.config.allowWithoutPrompt \in {None, Some(TRUE)}
                    THEN AllowResult
                    ELSE DenyResult(
                             "Semantic inspection requires user prompt context",
                             <<>>, <<>>)

\* a skipped operation without a user prompt, where a missing prompt would
\* otherwise be denied
C15_Witness ==
    /\ HarnessDone("semantic")
    /\ HSkipped
    /\ hCtx.userPrompt = None
    /\ hGuard.config.allowWithoutPrompt = Some(FALSE)
    /\ hOut[1] = Returned(AllowResult, <<>>)

\* C39: SemanticGuard invokes the verifier exactly once for every
\* non-skipped call whose originating request is a string, the empty string
\* included; only an absent originating request takes the
\* allowWithoutPrompt branch, where the verifier is not invoked.
C39_VerifierOncePerString ==
    (HarnessDone("semantic") /\ ~HSkipped) =>
        IF hCtx.userPrompt = None
        THEN HCalls("llmProvider") = {}
        ELSE Cardinality(HCalls("llmProvider")) = 1

HCritical ==
    \E i \in 1..Len(hGuard.config.criticalTools) :
        matchPattern(hGuard.config.criticalTools[i], hCtx.toolName)

\* C16: for a call whose operation matches none of the critical patterns,
\* ApprovalGuard allows immediately: the approver is not invoked, no timer is
\* armed and neither notification callback is emitted.
C16_NonCriticalAllowed ==
    (HarnessDone("approval") /\ ~HCritical) =>
        /\ ~hOut[1].threw
        /\ hOut[1].result = AllowResult
        /\ HCalls("approvalHandler") = {}
        /\ HCalls("setTimeout") = {}
        /\ HCalls("onApprovalRequested") = {}
        /\ HCalls("onApprovalReceived") = {}

\* both callbacks are configured and the approver would have refused
C16_Witness ==
    /\ HarnessDone("approval")
    /\ hCtx.toolName = S_db_query
    /\ hGuard.config.onApprovalRequested /\ hGuard.config.onApprovalReceived
    /\ hEnv[1].approver = "false"
    /\ hOut[1] = Returned(AllowResult, <<>>)

\* the approver was invoked and settled (resolved, rejected or raised)
\* before the timer fired
HApproverFirst ==
    /\ HCalls("approvalHandler") # {}
    /\ hEnv[1].approver # "pending"
    /\ ~hEnv[1].timerFirst

\* the approver was invoked and the timer fired while it had not settled
HTimerFirst ==
    /\ HCalls("approvalHandler") # {}
    /\ HCalls("setTimeout") # {}
    /\ \/ hEnv[1].approver = "pending"
       \/ hEnv[1].timerFirst

\* C17: for a critical call whose approver settles before the timer fires,
\* ApprovalGuard allows iff the approver resolved true; an approver that
\* resolved false yields a denial with reason "Approval denied", and an
\* approver that raised or rejected yields a denial with reason "Approval
\* process failed: <message>" together with an "approval received: false"
\* notification.
C17_ApproverSettlesFirst ==
    (HarnessDone("approval") /\ HCritical /\ HApproverFirst) =>
        /\ ~hOut[1].threw
        /\ hOut[1].result.allowed <=> hEnv[1].approver = "true"
        /\ hEnv[1].approver = "true" => hOut[1].result = AllowResult
        /\ hEnv[1].approver = "false" =>
              hOut[1].result =
                  DenyResult("Approval denied", hCtx.toolName, <<>>)
        /\ hEnv[1].approver \in {"reject", "rejectTimeoutError", "throw"} =>
              /\ hOut[1].result =
                    DenyResult("Approval process failed", <<>>,
                               hEnv[1].message)
              /\ hGuard.config.onApprovalReceived =>
                    \E i \in HCalls("onApprovalReceived") :
                        ~hOut[1].events[i].flag

HTimeoutMs ==
    IF hGuard.config.timeoutMs = None THEN DefaultTimeoutMs
    ELSE hGuard.config.timeoutMs[1]

\* C18: for a critical call whose approver has not settled when the timer of
\* timeoutMs fires, the ApprovalGuard evaluation completes at that moment
\* without waiting further: with onTimeout = "deny" (the default) the decision
\* is a denial with a "timed out after <timeout>" reason, with onTimeout =
\* "allow" the decision is allow; this holds even if the approver never
\* resolves.
C18_TimerFirst ==
    (HarnessDone("approval") /\ HCritical /\ HTimerFirst) =>
        /\ ~hOut[1].threw
        /\ hOut[1].result =
              IF hGuard.config.onTimeout = Some("allow")
              THEN AllowResult
              ELSE TimedOutDenial(hCtx.toolName, HTimeoutMs)

\* the decisions of the four outcome paths of lines 135-165: approved,
\* rejected, timed out, approval failed
OutcomeDecisions(toolName, ms, onTimeout, message) ==
    [approved |-> AllowResult,
     rejected |-> DenyResult("Approval denied", toolName, <<>>),
     timedOut |-> IF onTimeout = Some("allow") THEN AllowResult
                  ELSE TimedOutDenial(toolName, ms),
     failed |-> DenyResult("Approval process failed", <<>>, message)]

\* the outcome path the approver and the timer select
HOutcomePath ==
    IF hEnv[1].approver = "throw" THEN "failed"
    ELSE IF hEnv[1].approver = "pending" \/ hEnv[1].timerFirst
    THEN "timedOut"
    ELSE IF hEnv[1].approver \in {"reject", "rejectTimeoutError"}
    THEN "failed"
    ELSE IF hEnv[1].approver = "true" THEN "approved"
    ELSE "rejected"

\* C19: for every ApprovalGuard evaluation of a critical call, exactly one
\* outcome path executes: exactly one of the branches approved, rejected,
\* timed out, approval failed runs, the "approval received" notification is
\* emitted exactly once, and the decision returned is that branch's decision,
\* whatever the approver, the timer and the notification callbacks do
\* (including a notification callback that raises).
C19_ExactlyOneOutcome ==
    (HarnessDone("approval") /\ HCritical) =>
        /\ ~hOut[1].threw
        /\ hGuard.config.onApprovalReceived =>
              Cardinality(HCalls("onApprovalReceived")) = 1
        /\ hOut[1].result =
              OutcomeDecisions(hCtx.toolName, HTimeoutMs,
                               hGuard.config.onTimeout,
                               hEnv[1].message)[HOutcomePath]

\* C29: for every evaluation of a critical call, onApprovalRequested (if
\* configured) is emitted exactly once and before the approver is invoked,
\* the approver is invoked exactly once, onApprovalReceived (if
\* configured) is emitted after the approver was invoked and the race was
\* decided, a decision is then returned, and the value passed to
\* onApprovalReceived is the approver's result when the approver resolved
\* before the timer fired.
C29_NotificationOrder ==
    (HarnessDone("approval") /\ HCritical) =>
        LET events == hOut[1].events
            requested == HCalls("onApprovalRequested")
            invocations == HCalls("approvalHandler")
            received == HCalls("onApprovalReceived")
        IN  /\ Cardinality(invocations) = 1
            /\ Cardinality(requested) =
                  IF hGuard.config.onApprovalRequested THEN 1 ELSE 0
            /\ \A i \in requested : \A j \in invocations : i < j
            /\ \A j \in invocations : \A k \in received : j < k
            /\ hGuard.config.onApprovalReceived => received # {}
            /\ ~hOut[1].threw
            /\ (/\ hEnv[1].approver \in {"true", "false"}
                /\ ~hEnv[1].timerFirst) =>
                  \A k \in received :
                      events[k].flag = (hEnv[1].approver = "true")

\* C33: for every evaluation of ApprovalGuard that returns a decision,
\* every onApprovalReceived(ctx, v) it emitted has v equal to the allowed
\* flag of that decision, whatever onTimeout is and whichever of approved,
\* rejected, timed out and failed the outcome is.
C33_NotificationAgrees ==
    (HarnessDone("approval") /\ ~hOut[1].threw) =>
        \A k \in HCalls("onApprovalReceived") :
            hOut[1].events[k].flag = hOut[1].result.allowed

----------------------------------------------------------------------------
(* Claims about pipe (SpecPipe) *)

\* the invocation of guard k returned a result (it did not raise)
Answered(k) == ~invoked[k].out.threw

Denied(k) == Answered(k) /\ ~invoked[k].out.result.allowed

\* the guards before k that supplied sanitizedArgs
Suppliers(k) ==
    {j \in 1..(k - 1) :
        Answered(j) /\ invoked[j].out.result.sanitizedArgs # None}

MaxOf(S) == CHOOSE x \in S : \A y \in S : y <= x

\* C1: if guard gi returns allowed=false, no guard gj with j>i is ever
\* invoked for that evaluation (no verifier or approver call for a call an
\* earlier layer denied), and the pipeline's decision is exactly gi's
\* denial with gi's reason.
C1_ShortCircuit ==
    /\ \A k \in 1..Len(invoked) : invoked[k].index = k
    /\ \A k \in 1..Len(invoked) :
          Denied(k) =>
              /\ k = Len(invoked)
              /\ ret \in {None, Some(invoked[k].out.result)}
              /\ pc \in {"pipe_check", "pipe_returned"}
              /\ pc = "pipe_returned" => ret = Some(invoked[k].out.result)

\* the first guard denied with a reason, the verifier or the approver came
\* next in the list, and the pipeline has returned
C1_Witness ==
    /\ pc = "pipe_returned"
    /\ Len(guards) >= 2
    /\ guards[2].kind \in {"semantic", "approval"}
    /\ Len(invoked) = 1
    /\ Denied(1)
    /\ ret = Some(GuardResult(FALSE, Some(R_first), None))

\* C2: every guard gk is invoked with a call whose arguments are the
\* sanitizedArgs of the latest earlier guard that allowed and supplied
\* sanitizedArgs, or the original arguments if no earlier guard supplied
\* any; the rest of the call is the original one.
C2_SanitizedPropagation ==
    \A k \in 1..Len(invoked) :
        /\ invoked[k].ctx.args =
              IF Suppliers(k) = {} THEN callCtx.args
              ELSE invoked[MaxOf(Suppliers(k))].out.result.sanitizedArgs[1]
        /\ invoked[k].ctx.toolName = callCtx.toolName
        /\ invoked[k].ctx.userPrompt = callCtx.userPrompt
        /\ invoked[k].ctx.meta = callCtx.meta

\* guard 1 rewrote the arguments, guard 2 rewrote them again, and guard 3
\* saw the arguments of guard 2
C2_Witness ==
    /\ Len(invoked) = 3
    /\ callCtx.args = A_raw
    /\ invoked[1].out.result.sanitizedArgs = Some(A_coerced)
    /\ invoked[2].ctx.args = A_coerced
    /\ invoked[2].out.result.sanitizedArgs = Some(A_clean)
    /\ invoked[3].ctx.args = A_clean

\* the call c is the original call but for its arguments
KeepsAllButArgs(c) == [c EXCEPT !.args = callCtx.args] = callCtx

\* C24: throughout an evaluation of pipe, and once it has returned or
\* raised, the call it was given is the value it was at the start (no step
\* changes its operation, arguments, prompt or metadata); the first guard
\* receives that very call, and every call built for a later guard
\* differs from it in its arguments only.
C24_CallNeverMutated ==
    /\ [][callCtx' = callCtx]_vars
    /\ [](/\ callCtx \in PipeContexts
          /\ KeepsAllButArgs(currentCtx)
          /\ \A k \in 1..Len(invoked) : KeepsAllButArgs(invoked[k].ctx)
          /\ invoked # <<>> => invoked[1].ctx = callCtx)

\* the pipeline has returned after a guard was called with rewritten
\* arguments, and the original call still has the arguments it came with
C24_Witness ==
    /\ ret # None
    /\ Len(invoked) >= 2
    /\ callCtx.args = A_raw
    /\ invoked[2].ctx.args = A_coerced
    /\ invoked[2].ctx.toolName = callCtx.toolName

\* C3: when every guard of a pipeline allows, the decision returned is
\* allowed=true and, if any guard supplied sanitizedArgs, it carries the
\* last such value as its sanitizedArgs.
C3_DecisionCarriesSanitized ==
    (pc = "pipe_returned" /\ \A k \in 1..Len(invoked) : ~Denied(k)) =>
        /\ ret # None
        /\ ret[1].allowed
        /\ Suppliers(Len(invoked) + 1) # {} =>
              ret[1].sanitizedArgs =
                  invoked[MaxOf(Suppliers(Len(invoked) + 1))]
                      .out.result.sanitizedArgs

----------------------------------------------------------------------------
(* Claims about the McpGuard middleware (Spec) *)

IsToolCall == pc # "idle" /\ mwCtx.type = "tool"

\* the validation layer ran for an operation with a registered schema
ValidatedBySchema(k) ==
    /\ invoked[k].kind = "validation"
    /\ Answered(k)
    /\ invoked[k].out.result.allowed
    /\ invoked[k].out.result.sanitizedArgs # None

\* C4: for a tool call the middleware allows and whose operation has a
\* registered parameter schema, the arguments the guarded operation sees
\* when next() runs are the schema's validated output.
C4_NextSeesValidatedOutput ==
    (IsToolCall /\ pc = "done" /\ nextLog # <<>>) =>
        \A k \in 1..Len(invoked) :
            ValidatedBySchema(k) =>
                nextLog[1] = invoked[k].out.result.sanitizedArgs

\* C5: for every tool call through the middleware, a denial means next()
\* is never invoked and a GuardDeniedError with the tool name and the
\* denial reason is raised; an allow means next() is invoked exactly once,
\* and only after the decision was rendered.
C5_DenialStopsExecution ==
    IsToolCall =>
        /\ ret = None => nextLog = <<>>
        /\ (ret # None /\ ~ret[1].allowed) =>
              /\ nextLog = <<>>
              /\ ret[1].reason # None
              /\ pc = "done" =>
                    thrown = Some(ErrorValue("GuardDeniedError",
                                      "GuardPipeline", mwCtx.name,
                                      ret[1].reason[1]))
        /\ (ret # None /\ ret[1].allowed) =>
              /\ thrown = None
              /\ Len(nextLog) = (IF pc = "done" THEN 1 ELSE 0)

\* a later layer denied after an earlier one allowed; the error is raised
\* and the tool did not run
C5_Witness ==
    /\ IsToolCall
    /\ pc = "done"
    /\ Len(invoked) >= 2
    /\ ret # None
    /\ ~ret[1].allowed
    /\ thrown # None
    /\ thrown[1].name = "GuardDeniedError"
    /\ nextLog = <<>>

\* the configuration enables no layer: nothing is put on the guard list
EnablesNoLayer ==
    /\ mcpConfig.namespaceRules \in {None, Some(<<>>)}
    /\ mcpConfig.parameterSchemas \in {None, Some({})}
    /\ ~(mcpConfig.enableSemanticInspection /\ mcpConfig.llmProvider)
    /\ ~(/\ mcpConfig.criticalTools # None
         /\ Len(mcpConfig.criticalTools[1]) > 0
         /\ mcpConfig.approvalHandler)

\* C21: a McpGuard whose configuration enables no layer has an empty guard
\* list, and for every tool call through its middleware the pipeline
\* allows, no guard (hence no verifier, no approver, no schema validator)
\* is invoked, nothing is raised, and next() runs exactly once with the
\* very arguments the call came with.
C21_EmptyConfigPassThrough ==
    /\ EnablesNoLayer <=> guards = <<>>
    /\ (IsToolCall /\ EnablesNoLayer) =>
          /\ invoked = <<>>
          /\ thrown = None
          /\ ret \in {None, Some(AllowResult)}
          /\ ret # None => ret[1].sanitizedArgs = None
          /\ pc # "mw_start" =>
                callCtx.args =
                   (IF mwCtx.args = None THEN EmptyArgs ELSE mwCtx.args[1])
          /\ nextLog = (IF pc = "done" THEN <<mwCtx.args>> ELSE <<>>)
          /\ pc \in {"mw_start", "passthrough", "pipe_returned", "done"}

\* a call with suspicious arguments and no prompt to a tool has run under
\* a configuration whose verifier and approver are both left unconfigured
C21_Witness ==
    /\ IsToolCall
    /\ EnablesNoLayer
    /\ pc = "done"
    /\ mwCtx.args = Some(A_inject)
    /\ mcpConfig.enableSemanticInspection
    /\ mcpConfig.criticalTools # None
    /\ nextLog = <<Some(A_inject)>>

\* the position of a layer in the documented order
LayerRank(kind) ==
    CASE kind = "static" -> 1
      [] kind = "validation" -> 2
      [] kind = "semantic" -> 3
      [] kind = "approval" -> 4

\* C22: within one evaluation of the pipeline built from a configuration,
\* the guards are invoked in the order namespace, validation, intent
\* verification, approval, each at most once, and a guard is invoked only
\* after every guard invoked before it has answered with allow; so the
\* verifier's guard has answered before the approver's guard starts, and
\* at most one guard (the last one invoked) is still unanswered.
C22_LayerOrder ==
    IsToolCall =>
        /\ \A i, j \in 1..Len(invoked) :
              i < j =>
                 /\ LayerRank(invoked[i].kind) < LayerRank(invoked[j].kind)
                 /\ invoked[i].index < invoked[j].index
                 /\ Answered(i)
                 /\ invoked[i].out.result.allowed
        /\ \A i \in 1..Len(invoked) :
              /\ invoked[i].kind = guards[invoked[i].index].kind
              /\ \A g \in 1..(invoked[i].index - 1) :
                    \E k \in 1..(i - 1) : invoked[k].index = g

\* all four layers are enabled and each one was invoked for the call
C22_Witness ==
    /\ IsToolCall
    /\ pc = "done"
    /\ Len(invoked) = 4
    /\ invoked[3].kind = "semantic"
    /\ invoked[4].kind = "approval"
    /\ nextLog # <<>>

\* C32: for every successful validation, with stripUnknown true (the
\* default) the sanitized arguments have no key the schema does not
\* declare, and with stripUnknown false every undeclared key of the input
\* is in the sanitized arguments with its value.
C32_StripUnknownSelects ==
    (/\ HarnessDone("validation")
     /\ ~hOut[1].threw
     /\ hOut[1].result.allowed
     /\ hOut[1].result.sanitizedArgs # None) =>
        LET sanitized == hOut[1].result.sanitizedArgs[1]
            unknown == (DOMAIN hCtx.args) \ hEnv[1].known
        IN  IF hGuard.config.stripUnknown \in {None, Some(TRUE)}
            THEN (DOMAIN sanitized) \subseteq hEnv[1].known
            ELSE \A k \in unknown :
                    k \in DOMAIN sanitized /\ sanitized[k] = hCtx.args[k]

\* C25: for every guard built from an accepted configuration and every
\* call, a decision that denies carries a reason that is present and is
\* not the empty string, and a decision that allows carries no reason.
C25_DenialsCarryReason ==
    (hOut # None /\ ~hOut[1].threw) =>
        IF hOut[1].result.allowed
        THEN hOut[1].result.reason = None
        ELSE /\ hOut[1].result.reason # None
             /\ ~ReasonIsEmptyString(hOut[1].result.reason[1])

\* the call of the middleware matches a pattern of a non-empty
\* criticalTools list
MwCritical ==
    /\ mcpConfig.criticalTools # None
    /\ matchesAnyPattern(mcpConfig.criticalTools[1], mwCtx.name)

\* the approval guard was invoked for the call, it invoked the approval
\* handler, and it allowed
ApprovedByHandler ==
    \E k \in 1..Len(invoked) :
        /\ invoked[k].kind = "approval"
        /\ \E j \in 1..Len(invoked[k].out.events) :
              invoked[k].out.events[j].ev = "approvalHandler"
        /\ Answered(k)
        /\ invoked[k].out.result.allowed

\* C35: under every configuration with a non-empty criticalTools list, a
\* tool call whose operation matches a critical pattern reaches next()
\* only after the approval handler was invoked for it and resolved true.
C35_CriticalNeedsApproval ==
    (IsToolCall /\ MwCritical /\ nextLog # <<>>) => ApprovedByHandler

\* C36: under every configuration, a tool call whose arguments contain an
\* injection pattern never reaches next(), whether or not parameterSchemas
\* are configured.
C36_InjectionAlwaysDenied ==
    (/\ IsToolCall
     /\ mwCtx.args # None
     /\ detectInjectionInArgs(mwCtx.args[1])) => nextLog = <<>>

\* C37: under defaultNamespaceAction 'deny' and an empty namespaceRules
\* list, every tool call is denied: next() never runs, and a pipeline that
\* returned has returned a denial.
C37_DenyByDefault ==
    (/\ IsToolCall
     /\ mcpConfig.defaultNamespaceAction = "deny"
     /\ mcpConfig.namespaceRules = Some(<<>>))
        => /\ nextLog = <<>>
           /\ ret # None => ~ret[1].allowed

\* the pipeline of the middleware is evaluating the call
LiveEvaluating ==
    pc \in {"passthrough", "pipe_loop", "pipe_check", "await_verifier",
            "await_approver"}

\* the pipeline has returned a Decision
LiveCompleted == ret # None

\* C38: provided the verifier eventually settles, every pipeline evaluation
\* eventually returns a Decision, whether or not the approver ever settles (the timer
\* bounds that wait); and an evaluation that awaits the verifier leaves
\* that wait only by the verifier settling.
C38_EvaluationCompletes ==
    /\ WF_vars(VerifierSettles) => (LiveEvaluating ~> LiveCompleted)
    /\ [][pc = "await_verifier" =>
             (pc' = "await_verifier" \/ VerifierSettles)]_vars

\* an evaluation has awaited the verifier, then the approver until the
\* timer fired, and has returned its Decision
C38_Witness ==
    /\ ret # None
    /\ \E k \in 1..Len(invoked) :
          /\ invoked[k].kind = "semantic"
          /\ \E j \in 1..Len(invoked[k].out.events) :
                invoked[k].out.events[j].ev = "llmProvider"
    /\ \E k \in 1..Len(invoked) :
          /\ invoked[k].kind = "approval"
          /\ ~invoked[k].out.threw
          /\ invoked[k].out.result.reason # None
          /\ invoked[k].out.result.reason[1].tag = "Approval timed out"

----------------------------------------------------------------------------
(* Claims about the guard combinators *)

\* C23: for every pattern list and operation, createSelectiveSemanticGuard
\* answers as the base semantic guard does when matchesAnyPattern holds of
\* the pattern list and the operation, and otherwise allows without any
\* call of the verifier.
C23_SelectsByMatchPattern ==
    HarnessDone("selective") =>
        hOut[1] =
           (IF matchesAnyPattern(hGuard.config.inspectPatterns,
                                 hCtx.toolName)
            THEN SemanticGuardEvaluate(hGuard.config.base, hCtx, hEnv[1])
            ELSE Returned(AllowResult, <<>>))

\* what the base validation guard of the harness guard answers
HBase == ValidationGuardEvaluate(hGuard.config.base, hCtx, hEnv[1])

\* C30: createValidationGuardWithCustom answers with the base guard's
\* denial, without invoking the validator, when the base guard denies;
\* when the base guard allows and a validator is registered for the
\* operation, the validator is invoked once, with the base guard's
\* sanitizedArgs if present and the original arguments otherwise, and the
\* call is allowed, with the base result (sanitizedArgs included), exactly
\* when the validator returns true; a validator that returns a string
\* yields a denial with that string as reason, and one that returns false
\* a denial with reason 'Custom validation failed'.
C30_CustomAfterBase ==
    HarnessDone("custom") =>
        /\ ~HBase.result.allowed =>
              /\ hOut[1] = HBase
              /\ HCalls("customValidator") = {}
        /\ (/\ HBase.result.allowed
            /\ hCtx.toolName \in hGuard.config.customValidators) =>
              /\ Cardinality(HCalls("customValidator")) = 1
              /\ \A i \in HCalls("customValidator") :
                    hOut[1].events[i].args =
                       (IF HBase.result.sanitizedArgs # None
                        THEN HBase.result.sanitizedArgs[1]
                        ELSE hCtx.args)
              /\ (~hOut[1].threw /\ hOut[1].result.allowed)
                    <=> hEnv[1].custom = "true"
              /\ hEnv[1].custom = "true" => hOut[1].result = HBase.result
              /\ hEnv[1].custom = "string" =>
                    hOut[1].result =
                       GuardResult(FALSE,
                           Some(Reason("custom", <<>>, hEnv[1].customText)),
                           None)
              /\ hEnv[1].custom = "false" =>
                    hOut[1].result =
                       DenyResult("Custom validation failed", <<>>, <<>>)

\* the schema rewrote the arguments, the validator was given the rewritten
\* ones and refused them with its own message
C30_Witness ==
    /\ HarnessDone("custom")
    /\ hCtx.args = A_raw
    /\ HBase.result.sanitizedArgs = Some(A_coerced)
    /\ hEnv[1].custom = "string"
    /\ hEnv[1].customText = M_bad
    /\ hOut[1].events[Len(hOut[1].events)] = CustomValidatorCall(A_coerced)
    /\ ~hOut[1].result.allowed

\* the arguments guard c was invoked with during an evaluation
CallsOfC(outcome) ==
    {outcome.events[k].args :
        k \in {j \in 1..Len(outcome.events) :
                  /\ outcome.events[j].ev = "guard"
                  /\ outcome.events[j].guard = DoubleGuard("c")}}

\* pipe(a, b, c) on the call and the behaviours of the harness
HFlat ==
    PipeRun(<<DoubleGuard("a"), DoubleGuard("b"), DoubleGuard("c")>>, 1,
            hCtx,
            hEnv[1].inner[1].inner \o <<hEnv[1].inner[2]>>)

\* C34: for all guards a, b, c and every call, pipe(pipe(a, b), c) returns
\* the decision pipe(a, b, c) returns and invokes c with the arguments
\* pipe(a, b, c) invokes it with, also when a or b supplies sanitizedArgs.
C34_NestingPreserved ==
    HarnessDone("pipe") =>
        /\ hOut[1].threw = HFlat.threw
        /\ hOut[1].result = HFlat.result
        /\ CallsOfC(hOut[1]) = CallsOfC(HFlat)

----------------------------------------------------------------------------
(* Claims about matchPattern *)

RECURSIVE GlobConsumes(_, _, _, _)
\* the reading of a glob the claims state: from position i of the pattern
\* and position j of the string, each `*` stands for zero or more characters
\* of any kind, every other character stands for itself, and the whole
\* string is consumed
GlobConsumes(p, i, s, j) ==
    IF i > Len(p) THEN j > Len(s)
    ELSE IF p[i] = "*"
    THEN \E k \in j..(Len(s) + 1) : GlobConsumes(p, i + 1, s, k)
    ELSE /\ j <= Len(s)
         /\ s[j] = p[i]
         /\ GlobConsumes(p, i + 1, s, j + 1)

\* C9: for every pattern and every operation string, matchPattern is true
\* exactly when the whole operation is consumed with each `*` standing for
\* zero or more arbitrary characters (any character whatsoever) and every
\* other pattern character matched literally; no substring matching
\* (`fs:*` matches `fs:read`, not `myfs:read`; `safe:*` matches neither
\* `safe` nor `unsafe:action`).
C9_MatchIsAnchoredGlob ==
    mpResult # None =>
        mpResult[1] = GlobConsumes(mpPattern, 1, mpTool, 1)

\* C26 as stated: the empty operation is matched by the pattern `*` and
\* by the empty pattern, and by no other pattern.
C26_EmptyOnlyByStarOrEmpty ==
    (mpResult # None /\ mpTool = <<>>) =>
        (mpResult[1] <=> mpPattern \in {S_star, S_empty})

\* C26, amended: the empty operation is matched exactly by the patterns
\* made of `*` characters only, the empty pattern and `**` included.
C26_EmptyByStarsOnly ==
    (mpResult # None /\ mpTool = <<>>) =>
        (mpResult[1] <=> \A i \in 1..Len(mpPattern) : mpPattern[i] = "*")

\* the pattern `**` was matched against the empty operation, and matched
C26_Witness ==
    /\ mpPattern = <<"*", "*">>
    /\ mpTool = <<>>
    /\ mpResult = Some(TRUE)

----------------------------------------------------------------------------
(* Claims about concurrent evaluations of one ApprovalGuard (SpecConc) *)

\* the invocations of the approval handler made by evaluation e
Invocations(e) == {k \in 1..Len(agLog) : agLog[k].eval = e}

EvalCritical(e) ==
    \E i \in 1..Len(agGuard.config.criticalTools) :
        matchPattern(agGuard.config.criticalTools[i],
                     agEvals[e].ctx.toolName)

\* what evaluation e's own handler invocation and own timer did
OwnEnv(e) ==
    [DefaultEnv EXCEPT
        !.approver = IF agEvals[e].response = "none" THEN "true"
                     ELSE agEvals[e].response,
        !.timerFirst = (agEvals[e].first = "timer"),
        !.reqCb = agCallbacks, !.recv1 = agCallbacks,
        !.recv2 = agCallbacks]

\* C20: two or more evaluations running concurrently on the same
\* ApprovalGuard are independent: the approver is invoked exactly once per
\* critical evaluation, each evaluation has its own timer, and each
\* evaluation's decision depends only on the result of its own approver
\* invocation and its own timer, under every interleaving (an approver
\* returning true then false on successive invocations yields allow for the
\* first call and deny for the second).
C20_IndependentEvaluations ==
    agGuard # <<>> =>
        /\ \A e \in 1..Len(agEvals) :
              /\ Cardinality(Invocations(e)) =
                    IF EvalCritical(e) THEN 1 ELSE 0
              /\ \A k \in Invocations(e) :
                    agLog[k].response = agEvals[e].response
              /\ (EvalCritical(e) /\ agEvals[e].response # "throw") =>
                    agEvals[e].timer \in {"armed", "fired"}
              /\ (agEvals[e].out = None) =>
                    (agEvals[e].first = "none"
                     /\ agEvals[e].timer = "armed")
              /\ (agEvals[e].out # None) =>
                    LET alone ==
                            ApprovalGuardEvaluate(agGuard.config,
                                agEvals[e].ctx, OwnEnv(e))
                    IN  /\ agEvals[e].out[1].threw = alone.threw
                        /\ agEvals[e].out[1].result = alone.result
                        /\ EvalCritical(e) =>
                              (agEvals[e].first # "none"
                               \/ agEvals[e].response = "throw")
        /\ \A e1, e2 \in 1..Len(agEvals) :
              (/\ e1 < e2
               /\ agCallbacks = "ok"
               /\ agEvals[e1].response = "true"
               /\ agEvals[e1].first = "handler"
               /\ agEvals[e2].response = "false"
               /\ agEvals[e2].first = "handler") =>
                  /\ agEvals[e1].out = Some(Returned(AllowResult, <<>>))
                  /\ agEvals[e2].out # None
                  /\ ~agEvals[e2].out[1].threw
                  /\ ~agEvals[e2].out[1].result.allowed

\* two critical calls are in flight together, the approver said true to
\* the first and false to the second, and the second is decided (denied)
\* while the first still waits
C20_Witness ==
    /\ Len(agEvals) = 2
    /\ EvalCritical(1) /\ EvalCritical(2)
    /\ agEvals[1].ctx.toolName # agEvals[2].ctx.toolName
    /\ agEvals[1].response = "true" /\ agEvals[2].response = "false"
    /\ agEvals[1].out = None
    /\ agEvals[2].out =
          Some(Returned(DenyResult("Approval denied",
                                   agEvals[2].ctx.toolName, <<>>), <<>>))

\* the decision of the timeout branch, lines 148-155
TimeoutDecision(e) ==
    IF agGuard.config.onTimeout = Some("allow") THEN AllowResult
    ELSE TimedOutDenial(agEvals[e].ctx.toolName,
                        IF agGuard.config.timeoutMs = None
                        THEN DefaultTimeoutMs
                        ELSE agGuard.config.timeoutMs[1])

\* C27: once an evaluation has completed, no step changes its outcome or
\* adds a notification callback to those it emitted, and the step in
\* which the loser of its race arrives (the approver settling after the
\* timer, or the timer firing after the approver) changes nothing of any
\* other evaluation nor the record of approver invocations; a decision
\* returned after the timer fired first is the one onTimeout chooses,
\* with the one notification onApprovalReceived(ctx, false) if configured.
C27_LateSettlementIgnored ==
    /\ [][\A e \in 1..Len(agEvals) :
             agEvals[e].out # None =>
                /\ e <= Len(agEvals')
                /\ agEvals'[e].out = agEvals[e].out
                /\ agEvals'[e].notes = agEvals[e].notes
                /\ agEvals'[e].ctx = agEvals[e].ctx
                /\ agEvals'[e] # agEvals[e] =>
                      /\ agLog' = agLog
                      /\ Len(agEvals') = Len(agEvals)
                      /\ \A k \in 1..Len(agEvals) :
                            k # e => agEvals'[k] = agEvals[k]]_vars
    /\ [](\A e \in 1..Len(agEvals) :
            (/\ agEvals[e].first = "timer"
             /\ agEvals[e].out # None
             /\ ~agEvals[e].out[1].threw) =>
                /\ agEvals[e].out[1].result = TimeoutDecision(e)
                /\ agEvals[e].notes = AgCatchNotes(agGuard.config))

\* the first call timed out and was denied, its approver said true only
\* afterwards, and a second call on the same guard was approved
C27_Witness ==
    /\ Len(agEvals) = 2
    /\ agGuard.config.onApprovalReceived
    /\ agEvals[1].first = "timer"
    /\ agEvals[1].response = "true"
    /\ agEvals[1].handler = "settled"
    /\ agEvals[1].out # None
    /\ ~agEvals[1].out[1].threw
    /\ ~agEvals[1].out[1].result.allowed
    /\ agEvals[1].notes = <<Event("onApprovalReceived", FALSE)>>
    /\ agEvals[2].first = "handler"
    /\ agEvals[2].out = Some(Returned(AllowResult, <<>>))

\* C28: when the approver settles before the timeout the timer of that
\* evaluation is cancelled: once the evaluation has returned after its
\* approver settled first, its timer is neither pending nor fired.
C28_TimerCancelled ==
    \A e \in 1..Len(agEvals) :
        (agEvals[e].first = "handler" /\ agEvals[e].out # None) =>
            agEvals[e].timer \notin {"armed", "fired"}

----------------------------------------------------------------------------
(* Claims about buildPrompt (SpecPrompt) *)

RECURSIVE VerbatimFill(_, _, _, _, _)
\* the template from position i on, with the first occurrence of each
\* placeholder in the template replaced by its text as it is
VerbatimFill(template, i, toolName, args, userPrompt) ==
    IF i > Len(template) THEN <<>>
    ELSE IF IndexOf(template, PH_toolName) = i
    THEN toolName \o VerbatimFill(template, i + Len(PH_toolName), toolName,
                                  args, userPrompt)
    ELSE IF IndexOf(template, PH_args) = i
    THEN args \o VerbatimFill(template, i + Len(PH_args), toolName, args,
                              userPrompt)
    ELSE IF IndexOf(template, PH_userPrompt) = i
    THEN userPrompt \o VerbatimFill(template, i + Len(PH_userPrompt),
                                    toolName, args, userPrompt)
    ELSE <<template[i]>> \o VerbatimFill(template, i + 1, toolName, args,
                                         userPrompt)

\* C31: for every template, operation name, arguments and request text,
\* the prompt is the template with {toolName}, {args} and {userPrompt}
\* replaced by the operation name, the serialized arguments and the
\* request text, each as it is: no inserted text is read as a placeholder
\* or rewritten.
C31_PromptVerbatim ==
    bpPrompt # None =>
        bpPrompt[1] =
            VerbatimFill(bpTemplate, 1, bpCtx.toolName,
                         JsonStringify(bpCtx.args), bpCtx.userPrompt[1])

====
